---- MODULE Spec2Model ----
(***************************************************************************)
(* A model of plone-codemod's rewriting engine.                            *)
(*                                                                         *)
(*   import_migrator.py   the libcst codemod that rewrites `from X import` *)
(*                        declarations and renames usage sites             *)
(*   pt_migrator.py       ordered literal replacements in page templates   *)
(*   namespace_migrator.py  removal of legacy namespace declarations       *)
(*   packaging_migrator.py  merge of setup.py and setup.cfg metadata       *)
(*   zcml_migrator.py     ordered dotted-name replacements in ZCML and     *)
(*                        GenericSetup XML                                 *)
(*   cli.py               the phases, each run on a project tree           *)
(*                                                                         *)
(* A source file is a sequence of statement lines of the concrete syntax   *)
(* tree; libcst parses and prints losslessly, so a tree is also the text   *)
(* of the file (Code renders it, token by token).                          *)
(***************************************************************************)
EXTENDS Integers, Sequences, FiniteSets, TLC

VARIABLES
    config,     \* the "imports" list of migration_config.yaml
    source,     \* the parsed input file of transform_code
    tree,       \* the module the current run traverses
    pos,        \* index of the next statement line of the traversal
    renames,    \* PloneImportMigrator._renames
    output,     \* per visited line, the lines the current run emitted for it
    run,        \* 1: first run, 2: run on its own output, 3: both finished
    firstOutput,\* the output of the first run
    \* pt_migrator.py
    ptCall,     \* "pt": migrate_pt_content, "bootstrap": migrate_bootstrap_content
    content,    \* the text the function is called with
    replacements,    \* the pairs of migrate_pt_content
    data_attributes, \* the first list of migrate_bootstrap_content
    css_classes,     \* its second list
    result,     \* the local `result`
    ptLoop,     \* the loop the call is in: "replacements", "data", "css", "done"
    ptIndex,    \* index of the loop's next entry
    \* namespace_migrator.py
    fs,         \* the project tree: path -> [exists, text]
    before,     \* the project tree migrate_namespaces was called on
    dry_run,    \* the argument of migrate_namespaces
    init_files, \* the local list of (path, delete_entirely)
    nsIndex,    \* index of the loop's next entry
    deleted,    \* the local list `deleted`
    modified,   \* the local list `modified`
    nsPc,       \* "find", "loop", "setup_cfg", "done"
    \* packaging_migrator.py, merge_metadata
    setup_py_data,  \* the first argument, a mapping key -> value
    setup_cfg_data, \* the second argument, its items in dictionary order
    merged,         \* the local `result`
    mergeIndex,     \* index of the loop's next item
    mergePc,        \* "start", "loop", "done"
    \* zcml_migrator.py
    zcCall,         \* "zcml": migrate_zcml_files, "genericsetup": migrate_genericsetup_files
    zcEntries,      \* config["zcml"] or config["genericsetup"]["dotted_names"]
    zcViews,        \* the items of config["genericsetup"]["view_replacements"]
    zcContent,      \* the text of the file
    zcReplacements, \* the local `replacements`
    zcResult,       \* the local `result` of the content function
    zcLoop,         \* "build", "replacements", "views", "done"
    zcIndex,        \* index of the loop's next entry
    \* packaging_migrator.py, parse_setup_py
    assigns,        \* the module-level assignments of setup.py: [target, value]
    keywords,       \* node.keywords of the setup() call: [arg, value]
    module_vars,    \* the symbol table of _collect_module_vars
    extracted,      \* the local `result` of _extract_setup_kwargs
    evIndex,        \* index of the loop's next entry
    evPc,           \* "collect", "extract", "done", "raised"
    \* cli.py
    cliPhase,       \* the phase main() runs
    cliConfig,      \* the sections of migration_config.yaml the phase reads
    libcst_installed, \* whether `import libcst` succeeds
    cliDryRun,      \* args.dry_run
    cliFs,          \* the tree: path -> [exists, text]
    cliBefore,      \* the tree main() was started on
    cliResult,      \* what the phase's function returned
    cliPc,          \* "start", "done"
    \* namespace_migrator.py, remove_namespace_declaration
    rmLines,        \* content.splitlines(keepends=True)
    rmIndex,        \* the local `i`, 1-based
    rmKept,         \* the local `result`
    rmReturn,       \* the text returned
    rmPc,           \* "loop", "done"
    \* packaging_migrator.py, migrate_packaging
    pkFs,           \* the project directory: path -> [exists, text]
    pkBefore,       \* the directory migrate_packaging was called on
    pkDryRun,       \* the argument dry_run
    pkWarnings,     \* the local result_warnings
    pkCreated,      \* the local `created`
    pkDeleted,      \* the local `deleted`
    pkContent,      \* the local `content`, None before step 6
    pkName,         \* index of the next name of cleanup_old_files
    pkPc,           \* the step to take, or the exit: "no_source", "skipped",
                    \* "raised", "done"
    \* the directory walks of the phases, with files that cannot be read
    wkPhase,        \* "zcml", "genericsetup", "pt", "bootstrap", "namespaces"
    wkDryRun,       \* the argument dry_run
    wkFs,           \* the directory: path -> [exists, text]
    wkBefore,       \* the directory the phase was called on
    wkQueue,        \* the files the running loop has still to visit
    wkInitFiles,    \* the local init_files of migrate_namespaces
    wkModified,     \* the local `modified`
    wkDeleted,      \* the local `deleted`
    wkPc,           \* "find", "walk", "done", "raised"
    \* packaging_migrator.py, convert_tool_configs
    tcCfg,          \* the sections of setup.cfg: name -> its items [key, val] in order
    tcTools,        \* the local `tools`: [tables, entries], entries by path
    tcPc,           \* the section the next `if` asks for, "return", "done"
    \* packaging_migrator.py, generate_pyproject_toml
    gnMetadata,     \* the argument `metadata`
    gnExisting,     \* the argument `existing_pyproject`: the file it was read from, Absent for None
    gnTools,        \* the argument `tool_configs`: the names of the tools
    gnDoc,          \* the local `doc`
    gnPc            \* the statement reached, "raised", "done"

impVars == <<config, source, tree, pos, renames, output, run, firstOutput>>
ptVars == <<ptCall, content, replacements, data_attributes, css_classes, result,
            ptLoop, ptIndex>>
nsVars == <<fs, before, dry_run, init_files, nsIndex, deleted, modified, nsPc>>
mergeVars == <<setup_py_data, setup_cfg_data, merged, mergeIndex, mergePc>>
zcVars == <<zcCall, zcEntries, zcViews, zcContent, zcReplacements, zcResult, zcLoop,
            zcIndex>>
evVars == <<assigns, keywords, module_vars, extracted, evIndex, evPc>>
cliVars == <<cliPhase, cliConfig, libcst_installed, cliDryRun, cliFs, cliBefore,
             cliResult, cliPc>>
rmVars == <<rmLines, rmIndex, rmKept, rmReturn, rmPc>>
pkVars == <<pkFs, pkBefore, pkDryRun, pkWarnings, pkCreated, pkDeleted, pkContent, pkName, pkPc>>
wkVars == <<wkPhase, wkDryRun, wkFs, wkBefore, wkQueue, wkInitFiles, wkModified, wkDeleted, wkPc>>
tcVars == <<tcCfg, tcTools, tcPc>>
gnVars == <<gnMetadata, gnExisting, gnTools, gnDoc, gnPc>>
vars == <<impVars, ptVars, nsVars, mergeVars, zcVars, evVars, cliVars, rmVars, pkVars, wkVars, tcVars,
          gnVars>>

\* What each part of the program leaves alone.
impRest == <<ptVars, nsVars, mergeVars, zcVars, evVars, cliVars, rmVars,
    pkVars,
    wkVars,
    tcVars,
    gnVars>>
ptRest == <<impVars, nsVars, mergeVars, zcVars, evVars, cliVars, rmVars,
    pkVars,
    wkVars,
    tcVars,
    gnVars>>
nsRest == <<impVars, ptVars, mergeVars, zcVars, evVars, cliVars, rmVars,
    pkVars,
    wkVars,
    tcVars,
    gnVars>>
mergeRest == <<impVars, ptVars, nsVars, zcVars, evVars, cliVars, rmVars,
    pkVars,
    wkVars,
    tcVars,
    gnVars>>
zcRest == <<impVars, ptVars, nsVars, mergeVars, evVars, cliVars, rmVars,
    pkVars,
    wkVars,
    tcVars,
    gnVars>>
evRest == <<impVars, ptVars, nsVars, mergeVars, zcVars, cliVars, rmVars,
    pkVars,
    wkVars,
    tcVars,
    gnVars>>
cliRest == <<impVars, ptVars, nsVars, mergeVars, zcVars, evVars, rmVars,
    pkVars,
    wkVars,
    tcVars,
    gnVars>>
rmRest == <<impVars, ptVars, nsVars, mergeVars, zcVars, evVars, cliVars,
    pkVars,
    wkVars,
    tcVars,
    gnVars>>
pkRest == <<impVars, ptVars, nsVars, mergeVars, zcVars, evVars, cliVars, rmVars,
    wkVars,
    tcVars,
    gnVars>>
wkRest == <<impVars, ptVars, nsVars, mergeVars, zcVars, evVars, cliVars, rmVars, pkVars,
    tcVars,
    gnVars>>
tcRest == <<impVars, ptVars, nsVars, mergeVars, zcVars, evVars, cliVars, rmVars, pkVars, wkVars,
    gnVars>>
gnRest == <<impVars, ptVars, nsVars, mergeVars, zcVars, evVars, cliVars, rmVars, pkVars, wkVars, tcVars>>

\* A part of the program that is not running.
ImportIdle ==
    /\ config = <<>> /\ source = <<>> /\ tree = <<>> /\ pos = 1 /\ renames = <<>>
    /\ output = <<>> /\ run = 3 /\ firstOutput = <<>>

PtIdle ==
    /\ ptCall = "pt" /\ content = <<>> /\ replacements = <<>> /\ data_attributes = <<>>
    /\ css_classes = <<>> /\ result = <<>> /\ ptLoop = "done" /\ ptIndex = 1

NsIdle ==
    /\ fs = <<>> /\ before = <<>> /\ dry_run = TRUE /\ init_files = <<>> /\ nsIndex = 1
    /\ deleted = <<>> /\ modified = <<>> /\ nsPc = "done"

MergeIdle ==
    /\ setup_py_data = <<>> /\ setup_cfg_data = <<>> /\ merged = <<>>
    /\ mergeIndex = 1 /\ mergePc = "done"

ZcIdle ==
    /\ zcCall = "zcml" /\ zcEntries = <<>> /\ zcViews = <<>> /\ zcContent = <<>>
    /\ zcReplacements = <<>> /\ zcResult = <<>> /\ zcLoop = "done" /\ zcIndex = 1

EvIdle ==
    /\ assigns = <<>> /\ keywords = <<>> /\ module_vars = <<>> /\ extracted = <<>>
    /\ evIndex = 1 /\ evPc = "done"

CliIdle ==
    /\ cliPhase = "python" /\ cliConfig = <<>> /\ libcst_installed = FALSE
    /\ cliDryRun = TRUE /\ cliFs = <<>> /\ cliBefore = <<>> /\ cliResult = <<>>
    /\ cliPc = "done"

RmIdle ==
    /\ rmLines = <<>> /\ rmIndex = 1 /\ rmKept = <<>> /\ rmReturn = <<>> /\ rmPc = "done"

PkIdle ==
    /\ pkFs = <<>> /\ pkBefore = <<>> /\ pkDryRun = FALSE /\ pkWarnings = <<>>
    /\ pkCreated = <<>> /\ pkDeleted = <<>> /\ pkContent = <<>> /\ pkName = 1
    /\ pkPc = "done"

WkIdle ==
    /\ wkPhase = "zcml" /\ wkDryRun = FALSE /\ wkFs = <<>> /\ wkBefore = <<>>
    /\ wkQueue = <<>> /\ wkInitFiles = <<>> /\ wkModified = <<>> /\ wkDeleted = <<>>
    /\ wkPc = "done"

TcIdle ==
    /\ tcCfg = <<>> /\ tcTools = <<>> /\ tcPc = "done"

GnIdle ==
    /\ gnMetadata = <<>> /\ gnExisting = <<>> /\ gnTools = {} /\ gnDoc = <<>>
    /\ gnPc = "done"

impRestIdle == PtIdle /\ NsIdle /\ MergeIdle /\ ZcIdle /\ EvIdle /\ CliIdle /\ RmIdle
    /\ PkIdle
    /\ WkIdle
    /\ TcIdle
    /\ GnIdle
ptRestIdle == ImportIdle /\ NsIdle /\ MergeIdle /\ ZcIdle /\ EvIdle /\ CliIdle /\ RmIdle
    /\ PkIdle
    /\ WkIdle
    /\ TcIdle
    /\ GnIdle
nsRestIdle == ImportIdle /\ PtIdle /\ MergeIdle /\ ZcIdle /\ EvIdle /\ CliIdle /\ RmIdle
    /\ PkIdle
    /\ WkIdle
    /\ TcIdle
    /\ GnIdle
mergeRestIdle == ImportIdle /\ PtIdle /\ NsIdle /\ ZcIdle /\ EvIdle /\ CliIdle /\ RmIdle
    /\ PkIdle
    /\ WkIdle
    /\ TcIdle
    /\ GnIdle
zcRestIdle == ImportIdle /\ PtIdle /\ NsIdle /\ MergeIdle /\ EvIdle /\ CliIdle /\ RmIdle
    /\ PkIdle
    /\ WkIdle
    /\ TcIdle
    /\ GnIdle
evRestIdle == ImportIdle /\ PtIdle /\ NsIdle /\ MergeIdle /\ ZcIdle /\ CliIdle /\ RmIdle
    /\ PkIdle
    /\ WkIdle
    /\ TcIdle
    /\ GnIdle
cliRestIdle == ImportIdle /\ PtIdle /\ NsIdle /\ MergeIdle /\ ZcIdle /\ EvIdle /\ RmIdle
    /\ PkIdle
    /\ WkIdle
    /\ TcIdle
    /\ GnIdle
rmRestIdle == ImportIdle /\ PtIdle /\ NsIdle /\ MergeIdle /\ ZcIdle /\ EvIdle /\ CliIdle
    /\ PkIdle
    /\ WkIdle
    /\ TcIdle
    /\ GnIdle
pkRestIdle == ImportIdle /\ PtIdle /\ NsIdle /\ MergeIdle
    /\ ZcIdle /\ EvIdle /\ CliIdle /\ RmIdle
    /\ WkIdle
    /\ TcIdle
    /\ GnIdle
wkRestIdle == ImportIdle /\ PtIdle /\ NsIdle /\ MergeIdle
    /\ ZcIdle /\ EvIdle /\ CliIdle /\ RmIdle /\ PkIdle
    /\ TcIdle
    /\ GnIdle
tcRestIdle == ImportIdle /\ PtIdle /\ NsIdle /\ MergeIdle
    /\ ZcIdle /\ EvIdle /\ CliIdle /\ RmIdle /\ PkIdle /\ WkIdle
    /\ GnIdle
gnRestIdle == ImportIdle /\ PtIdle /\ NsIdle /\ MergeIdle
    /\ ZcIdle /\ EvIdle /\ CliIdle /\ RmIdle /\ PkIdle /\ WkIdle /\ TcIdle

\* Python's None
NoneVal == "<None>"

Max(S) == CHOOSE m \in S : \A n \in S : n <= m

Range(s) == {s[i] : i \in DOMAIN s}

(***************************************************************************)
(* Bounds of the inputs.                                                   *)
(***************************************************************************)
MaxEntries == 2     \* entries of the "imports" list
MaxLines == 2       \* statement lines of a file, before its last line
MaxNames == 3       \* names of one import declaration
MaxPairs == 2       \* replacement pairs of one list
MaxText == 3        \* characters of a text
MaxLiteral == 2     \* characters of an old or new literal
MaxItems == 3       \* top-level items (lines or guard blocks) of an __init__.py
MaxKeys == 2        \* keys of one metadata record
MaxAssigns == 1     \* module-level assignments of a setup.py
MaxKeywords == 2    \* keyword arguments of the setup() call
MaxOptions == 2     \* options of a section of setup.cfg
MaxSections == 2    \* sections of a setup.cfg

(***************************************************************************)
(* load_mappings.  An entry of the configuration holds the result of       *)
(* rsplit(".", 1) on its "old" and "new": <<qualifier, name>> for a dotted *)
(* name, <<name>> for one with no dot.                                     *)
(***************************************************************************)
ImportMapping(old_parts, new_parts) ==
    [old_module |-> old_parts[1], old_name |-> old_parts[2],
     new_module |-> new_parts[1], new_name |-> new_parts[2]]

load_mappings(cfg) ==
    LET wellFormed(e) == Len(e.old) = 2 /\ Len(e.new) = 2
        kept == SelectSeq(cfg, wellFormed)
    IN  [i \in 1..Len(kept) |-> ImportMapping(kept[i].old, kept[i].new)]

\* The indexes of the mappings keyed (module, name).
KeyIndexes(mappings, module, name) ==
    {i \in 1..Len(mappings) :
        mappings[i].old_module = module /\ mappings[i].old_name = name}

\* self._lookup: the dict is filled in list order, a later entry replacing
\* an earlier one of the same key.  0 when the key is absent.
LookupIndex(mappings, module, name) ==
    LET idx == KeyIndexes(mappings, module, name)
    IN  IF idx = {} THEN 0 ELSE Max(idx)

InLookup(mappings, module, name) == LookupIndex(mappings, module, name) # 0

Lookup(mappings, module, name) == mappings[LookupIndex(mappings, module, name)]

(***************************************************************************)
(* The syntax tree.  An import line is `from <module> import <names>`,     *)
(* alone on its line or after another small statement (`pass; from ...`).  *)
(* Every identifier below is a cst.Name node.                              *)
(***************************************************************************)
Alias(name, asname, comma) == [name |-> name, asname |-> asname, comma |-> comma]

ImportLine(shared, module, star, names, paren) ==
    [kind |-> "import", shared |-> shared, relative |-> FALSE, module |-> module,
     star |-> star, names |-> names, paren |-> paren]

\* The same declaration with one leading dot: `from .<module> import <names>`.
RelativeImport(line) == [line EXCEPT !.relative = TRUE]

\* An expression line: identifiers as a bare reference (`x`), as an
\* attribute name (`o.x`) and as a keyword-argument name (`f(x=1)`).
ExprLine(nodes) == [kind |-> "expr", nodes |-> nodes]

Put(f, k, v) == [n \in DOMAIN f \cup {k} |-> IF n = k THEN v ELSE f[n]]

\* visit_ImportFrom: self._renames after the visit of the statement.
visit_ImportFrom(mappings, ren, stmt) ==
    IF stmt.module = NoneVal \/ stmt.star THEN ren
    ELSE
        LET F[i \in 0..Len(stmt.names)] ==
                IF i = 0 THEN ren
                ELSE LET a == stmt.names[i]
                     IN  IF /\ InLookup(mappings, stmt.module, a.name)
                            /\ Lookup(mappings, stmt.module, a.name).new_name # a.name
                            /\ a.asname = NoneVal
                         THEN Put(F[i - 1], a.name, Lookup(mappings, stmt.module, a.name).new_name)
                         ELSE F[i - 1]
        IN  F[Len(stmt.names)]

\* leave_Name: the value of a Name node after the visit.
leave_Name(ren, id) == IF id \in DOMAIN ren THEN ren[id] ELSE id

\* The updated_node of a line: leave_Name has run on every Name under it.
UpdatedNode(ren, line) ==
    IF line.kind = "expr"
    THEN [line EXCEPT !.nodes =
            [i \in 1..Len(line.nodes) |->
                [line.nodes[i] EXCEPT !.id = leave_Name(ren, line.nodes[i].id)]]]
    ELSE [line EXCEPT
            !.module = IF line.module = NoneVal THEN NoneVal ELSE leave_Name(ren, line.module),
            !.names = [i \in 1..Len(line.names) |->
                [line.names[i] EXCEPT
                    !.name = leave_Name(ren, line.names[i].name),
                    !.asname = IF line.names[i].asname = NoneVal THEN NoneVal
                               ELSE leave_Name(ren, line.names[i].asname)]]]

\* "Clean trailing comma": the last alias gets comma=MaybeSentinel.DEFAULT.
CleanTrailingComma(aliases) ==
    [i \in 1..Len(aliases) |->
        IF i = Len(aliases) THEN [aliases[i] EXCEPT !.comma = "default"] ELSE aliases[i]]

\* sorted() on the module names in use: Python's string order.
ModulesSorted == <<"A", "B", "C", "D">>

ModuleRank(m) == CHOOSE i \in DOMAIN ModulesSorted : ModulesSorted[i] = m

\* sorted(migrated.keys())
SortedKeys(keys) == SelectSeq(ModulesSorted, LAMBDA m : m \in Range(keys))

\* The star-import branch: the first mapping whose old_module is the module.
StarTarget(mappings, module) ==
    LET idx == {i \in 1..Len(mappings) : mappings[i].old_module = module}
    IN  IF idx = {} THEN NoneVal
        ELSE mappings[CHOOSE i \in idx : \A j \in idx : i <= j].new_module

\* The aliases of orig_stmt with no mapping, in their order.
KeptAliases(mappings, stmt) ==
    SelectSeq(stmt.names, LAMBDA a : ~InLookup(mappings, stmt.module, a.name))

\* migrated[new_module]: the rebuilt aliases of the names mapped to new_module.
MigratedAliases(mappings, stmt, new_module) ==
    LET mapped == SelectSeq(stmt.names, LAMBDA a :
                    /\ InLookup(mappings, stmt.module, a.name)
                    /\ Lookup(mappings, stmt.module, a.name).new_module = new_module)
    IN  [i \in 1..Len(mapped) |->
            Alias(Lookup(mappings, stmt.module, mapped[i].name).new_name,
                  mapped[i].asname, "default")]

\* migrated.keys(): the target modules, in the order the dict first saw them.
MigratedKeys(mappings, stmt) ==
    LET F[i \in 0..Len(stmt.names)] ==
            IF i = 0 THEN <<>>
            ELSE IF /\ InLookup(mappings, stmt.module, stmt.names[i].name)
                    /\ Lookup(mappings, stmt.module, stmt.names[i].name).new_module
                          \notin Range(F[i - 1])
                 THEN Append(F[i - 1], Lookup(mappings, stmt.module, stmt.names[i].name).new_module)
                 ELSE F[i - 1]
    IN  F[Len(stmt.names)]

\* leave_SimpleStatementLine: the lines that replace one statement line.
leave_SimpleStatementLine(mappings, original_node, updated_node) ==
    IF original_node.kind # "import" \/ original_node.shared THEN <<updated_node>>
    ELSE IF original_node.module = NoneVal THEN <<updated_node>>
    ELSE IF original_node.star
    THEN IF StarTarget(mappings, original_node.module) # NoneVal
         THEN <<[original_node EXCEPT !.module = StarTarget(mappings, original_node.module)]>>
         ELSE <<updated_node>>
    ELSE IF \A i \in 1..Len(original_node.names) :
                ~InLookup(mappings, original_node.module, original_node.names[i].name)
    THEN <<updated_node>>
    ELSE
        LET kept == KeptAliases(mappings, original_node)
            keptLines == IF kept = <<>> THEN <<>>
                         ELSE <<[original_node EXCEPT !.names = CleanTrailingComma(kept)]>>
            keys == SortedKeys(MigratedKeys(mappings, original_node))
            newLines == [k \in 1..Len(keys) |->
                ImportLine(FALSE, keys[k], FALSE,
                    CleanTrailingComma(MigratedAliases(mappings, original_node, keys[k])),
                    FALSE)]
        IN  keptLines \o newLines

(***************************************************************************)
(* new_tree.code and cst.parse_module.                                     *)
(***************************************************************************)
RECURSIVE Flatten(_)
Flatten(seqs) == IF seqs = <<>> THEN <<>> ELSE Head(seqs) \o Flatten(Tail(seqs))

\* An alias prints its comma when it holds one, and with the default comma
\* when it is not the last alias of its declaration.
AliasCode(a, last) ==
    <<a.name>> \o (IF a.asname = NoneVal THEN <<>> ELSE <<"as", a.asname>>)
       \o (IF a.comma = "comma" \/ ~last THEN <<",">> ELSE <<>>)

NodeCode(n) ==
    IF n.pos = "ref" THEN <<n.id, ";">>
    ELSE IF n.pos = "attr" THEN <<"o", ".", n.id, ";">>
    ELSE <<"f", "(", n.id, "=", "1", ")", ";">>

LineCode(line) ==
    IF line.kind = "expr"
    THEN Flatten([i \in 1..Len(line.nodes) |-> NodeCode(line.nodes[i])]) \o <<"\n">>
    ELSE (IF line.shared THEN <<"pass", ";">> ELSE <<>>)
         \o <<"from">>
         \o (IF line.relative THEN <<".">> ELSE <<>>)
         \o (IF line.module = NoneVal THEN <<>> ELSE <<line.module>>)
         \o <<"import">>
         \o (IF line.paren THEN <<"(">> ELSE <<>>)
         \o (IF line.star THEN <<"*">>
             ELSE Flatten([i \in 1..Len(line.names) |->
                            AliasCode(line.names[i], i = Len(line.names))]))
         \o (IF line.paren THEN <<")">> ELSE <<>>)
         \o <<"\n">>

Code(lines) == Flatten([i \in 1..Len(lines) |-> LineCode(lines[i])])

\* parse_module(Code(lines)): an alias that printed a comma holds one.
ParseCode(lines) ==
    [i \in 1..Len(lines) |->
        IF lines[i].kind = "expr" THEN lines[i]
        ELSE [lines[i] EXCEPT !.names =
                [j \in 1..Len(lines[i].names) |->
                    [lines[i].names[j] EXCEPT !.comma =
                        IF lines[i].names[j].comma = "comma" \/ j < Len(lines[i].names)
                        THEN "comma" ELSE "default"]]]]

(***************************************************************************)
(* The inputs.                                                             *)
(***************************************************************************)
OldModules == {"A", "C"}
NewModules == {"B", "C"}
OldNames == {"x", "y"}
NewNames == {"y", "z"}

ConfigEntries ==
    {[old |-> <<m, n>>, new |-> <<m2, n2>>] :
        m \in OldModules, n \in OldNames, m2 \in NewModules, n2 \in NewNames}
    \cup {[old |-> <<"x">>, new |-> <<"B", "y">>]}

SeqsUpTo(S, n) == UNION {[1..k -> S] : k \in 0..n}

Configs == SeqsUpTo(ConfigEntries, MaxEntries)

\* One of each kind of occurrence of each identifier.
AllNodes ==
    <<[pos |-> "ref", id |-> "x"], [pos |-> "attr", id |-> "x"], [pos |-> "kwarg", id |-> "x"],
      [pos |-> "ref", id |-> "y"], [pos |-> "attr", id |-> "y"], [pos |-> "kwarg", id |-> "y"]>>

SingleAliases == {Alias(n, a, "default") : n \in OldNames, a \in {NoneVal, "y"}}

SimpleImportLines ==
    {ImportLine(FALSE, m, FALSE, <<a>>, FALSE) : m \in OldModules, a \in SingleAliases}
    \cup {ImportLine(FALSE, m, TRUE, <<>>, FALSE) : m \in OldModules \cup {"x"}}
    \cup {ImportLine(TRUE, "A", TRUE, <<>>, FALSE)}
    \cup {ImportLine(TRUE, "A", FALSE, <<a>>, FALSE) : a \in SingleAliases}
    \cup {RelativeImport(ImportLine(FALSE, m, FALSE, <<Alias("x", NoneVal, "default")>>,
                                    FALSE)) : m \in {NoneVal, "A"}}

Lines == SimpleImportLines \cup {ExprLine(AllNodes)}

\* Declarations of two or three names, with and without parentheses and a
\* trailing comma, and of two names after `pass;`; "w" has no mapping.
GroupNames == {"x", "y", "w"}

GroupAliases(k) ==
    {s \in [1..k -> {Alias(n, a, "comma") : n \in GroupNames, a \in {NoneVal, "q"}}] :
        \A i, j \in 1..k : i # j => s[i].name # s[j].name}

GroupImportLines ==
    UNION {{ImportLine(FALSE, "A", FALSE, CleanTrailingComma(s), p),
            ImportLine(FALSE, "A", FALSE, s, TRUE)} :
           s \in GroupAliases(2) \cup GroupAliases(MaxNames), p \in BOOLEAN}
    \cup {ImportLine(TRUE, "A", FALSE, CleanTrailingComma(s), FALSE) : s \in GroupAliases(2)}

\* Every file ends with a line holding every kind of occurrence.
Files ==
    {f \o <<ExprLine(AllNodes)>> : f \in SeqsUpTo(Lines, MaxLines) \ {<<>>}}
    \cup {<<g, ExprLine(AllNodes)>> : g \in GroupImportLines}

(***************************************************************************)
(* transform_code, line by line, then once more on its own output.         *)
(***************************************************************************)
mappings == load_mappings(config)

ImportInit ==
    /\ impRestIdle
    /\ config \in Configs
    /\ source \in Files
    /\ tree = source
    /\ pos = 1
    /\ renames = <<>>          \* visit_Module
    /\ output = <<>>
    /\ run = 1
    /\ firstOutput = <<>>

\* One `from ... import` line: visit_ImportFrom, leave_Name on its names,
\* leave_SimpleStatementLine.
VisitImportLine ==
    /\ run \in {1, 2}
    /\ pos <= Len(tree)
    /\ tree[pos].kind = "import"
    /\ LET scheduled == visit_ImportFrom(mappings, renames, tree[pos])
       IN  /\ renames' = scheduled
           /\ output' = Append(output, leave_SimpleStatementLine(
                            mappings, tree[pos], UpdatedNode(scheduled, tree[pos])))
    /\ pos' = pos + 1
    /\ UNCHANGED <<config, source, tree, run, firstOutput>>
    /\ UNCHANGED impRest

\* Any other line: leave_Name on its names, leave_SimpleStatementLine.
VisitOtherLine ==
    /\ run \in {1, 2}
    /\ pos <= Len(tree)
    /\ tree[pos].kind = "expr"
    /\ output' = Append(output, leave_SimpleStatementLine(
                            mappings, tree[pos], UpdatedNode(renames, tree[pos])))
    /\ pos' = pos + 1
    /\ UNCHANGED <<config, source, tree, renames, run, firstOutput>>
    /\ UNCHANGED impRest

\* transform_code returns new_tree.code; it is called again on that code.
Rerun ==
    /\ run = 1
    /\ pos > Len(tree)
    /\ firstOutput' = output
    /\ tree' = ParseCode(Flatten(output))
    /\ pos' = 1
    /\ renames' = <<>>
    /\ output' = <<>>
    /\ run' = 2
    /\ UNCHANGED <<config, source>>
    /\ UNCHANGED impRest

Finish ==
    /\ run = 2
    /\ pos > Len(tree)
    /\ run' = 3
    /\ UNCHANGED <<config, source, tree, pos, renames, output, firstOutput>>
    /\ UNCHANGED impRest

ImportNext == VisitImportLine \/ VisitOtherLine \/ Rerun \/ Finish

SpecImport == ImportInit /\ [][ImportNext]_vars

(***************************************************************************)
(* pt_migrator.py.  A text is a sequence of characters.                    *)
(***************************************************************************)
\* str.replace(old, new): every occurrence, left to right, not overlapping.
RECURSIVE Replace(_, _, _)
Replace(text, old, new) ==
    IF Len(text) < Len(old) THEN text
    ELSE IF SubSeq(text, 1, Len(old)) = old
    THEN new \o Replace(SubSeq(text, Len(old) + 1, Len(text)), old, new)
    ELSE <<Head(text)>> \o Replace(Tail(text), old, new)

Chars == {"a", "b"}

NonEmptySeqsUpTo(S, n) == UNION {[1..k -> S] : k \in 1..n}

Texts == SeqsUpTo(Chars, MaxText)

Pairs == {[old |-> o, new |-> n] :
            o \in NonEmptySeqsUpTo(Chars, MaxLiteral),
            n \in {<<"b">>, <<"c">>, <<"c", "a">>}}

PairLists == SeqsUpTo(Pairs, MaxPairs)

PtInit ==
    /\ ptRestIdle
    /\ content \in Texts
    /\ result = content
    /\ ptIndex = 1
    /\ \/ /\ ptCall = "pt"
          /\ replacements \in PairLists
          /\ data_attributes = <<>>
          /\ css_classes = <<>>
          /\ ptLoop = "replacements"
       \/ /\ ptCall = "bootstrap"
          /\ replacements = <<>>
          /\ data_attributes \in SeqsUpTo(Pairs, 1)
          /\ css_classes \in PairLists
          /\ ptLoop = "data"

\* migrate_pt_content: one iteration of `for entry in replacements`.
ApplyReplacement ==
    /\ ptLoop = "replacements"
    /\ ptIndex <= Len(replacements)
    /\ result' = Replace(result, replacements[ptIndex].old, replacements[ptIndex].new)
    /\ ptIndex' = ptIndex + 1
    /\ UNCHANGED <<ptCall, content, replacements, data_attributes, css_classes, ptLoop>>
    /\ UNCHANGED ptRest

\* migrate_pt_content: `return result`.
ReturnPt ==
    /\ ptLoop = "replacements"
    /\ ptIndex > Len(replacements)
    /\ ptLoop' = "done"
    /\ UNCHANGED <<ptCall, content, replacements, data_attributes, css_classes, result,
                   ptIndex>>
    /\ UNCHANGED ptRest

\* migrate_bootstrap_content: one iteration of `for entry in data_attributes`.
ApplyDataAttribute ==
    /\ ptLoop = "data"
    /\ ptIndex <= Len(data_attributes)
    /\ result' = Replace(result, data_attributes[ptIndex].old, data_attributes[ptIndex].new)
    /\ ptIndex' = ptIndex + 1
    /\ UNCHANGED <<ptCall, content, replacements, data_attributes, css_classes, ptLoop>>
    /\ UNCHANGED ptRest

\* migrate_bootstrap_content: the first loop ends, the second begins.
StartCssClasses ==
    /\ ptLoop = "data"
    /\ ptIndex > Len(data_attributes)
    /\ ptLoop' = "css"
    /\ ptIndex' = 1
    /\ UNCHANGED <<ptCall, content, replacements, data_attributes, css_classes, result>>
    /\ UNCHANGED ptRest

\* migrate_bootstrap_content: one iteration of `for entry in css_classes`.
ApplyCssClass ==
    /\ ptLoop = "css"
    /\ ptIndex <= Len(css_classes)
    /\ result' = Replace(result, css_classes[ptIndex].old, css_classes[ptIndex].new)
    /\ ptIndex' = ptIndex + 1
    /\ UNCHANGED <<ptCall, content, replacements, data_attributes, css_classes, ptLoop>>
    /\ UNCHANGED ptRest

\* migrate_bootstrap_content: `return result`.
ReturnBootstrap ==
    /\ ptLoop = "css"
    /\ ptIndex > Len(css_classes)
    /\ ptLoop' = "done"
    /\ UNCHANGED <<ptCall, content, replacements, data_attributes, css_classes, result,
                   ptIndex>>
    /\ UNCHANGED ptRest

PtNext ==
    \/ ApplyReplacement \/ ReturnPt
    \/ ApplyDataAttribute \/ StartCssClasses \/ ApplyCssClass \/ ReturnBootstrap

SpecPt == PtInit /\ [][PtNext]_vars

(***************************************************************************)
(* namespace_migrator.py.  A file is a sequence of lines, every line ended *)
(* by a newline, and a line is one of                                      *)
(*   "decl"            __import__('pkg_resources').declare_namespace(__name__) *)
(*   "idecl"           the same line, indented                             *)
(*   "pkgutil_import"  from pkgutil import extend_path                     *)
(*   "pkgutil_path"    __path__ = extend_path(__path__, __name__)          *)
(*   "try"             try:                                                *)
(*   "except"          except ImportError:                                 *)
(*   "finally"         finally:                                            *)
(*   "ipass"           pass, indented                                      *)
(*   "blank"           the empty line                                      *)
(*   "comment"         # -*- coding: utf-8 -*-                             *)
(*   "code"            import logging                                      *)
(*   "icode"           import logging, indented                            *)
(***************************************************************************)
_RE_PKG_RESOURCES(line) == line \in {"decl", "idecl"}

_RE_PKGUTIL_IMPORT(line) == line = "pkgutil_import"

_RE_PKGUTIL_PATH(line) == line = "pkgutil_path"

\* line.strip() is empty.
Blank(line) == line = "blank"

\* The regexes tried on every line, comment lines included.
is_namespace_declaration_NoCommentSkip(line) ==
    _RE_PKG_RESOURCES(line) \/ _RE_PKGUTIL_IMPORT(line) \/ _RE_PKGUTIL_PATH(line)
        \/ line = "comment"

is_namespace_declaration(line) ==
    IF Blank(line) \/ line = "comment" THEN FALSE
    ELSE _RE_PKG_RESOURCES(line) \/ _RE_PKGUTIL_IMPORT(line) \/ _RE_PKGUTIL_PATH(line)

has_namespace_declaration(text) ==
    \E i \in DOMAIN text : is_namespace_declaration(text[i])

is_only_namespace_init(text) ==
    IF ~has_namespace_declaration(text) THEN FALSE
    ELSE \A i \in DOMAIN text :
            \/ Blank(text[i])
            \/ text[i] = "comment"
            \/ is_namespace_declaration(text[i])
            \/ text[i] \in {"try", "except", "ipass"}

_is_indented(line) == line \in {"idecl", "ipass", "icode"}

\* `while i < len(lines) and not lines[i].strip(): i += 1`, 1-based.
RECURSIVE SkipBlank(_, _)
SkipBlank(lines, i) ==
    IF i <= Len(lines) /\ Blank(lines[i]) THEN SkipBlank(lines, i + 1) ELSE i

\* `while i < len(lines) and (blank or _is_indented(lines[i])): i += 1`.
RECURSIVE SkipBody(_, _)
SkipBody(lines, i) ==
    IF i <= Len(lines) /\ (Blank(lines[i]) \/ _is_indented(lines[i]))
    THEN SkipBody(lines, i + 1) ELSE i

\* A block that ends with its `except` line, the handler's body left out.
_collect_try_except_block_NoHandlerBody(lines, start) ==
    IF start > Len(lines) THEN 0
    ELSE IF lines[start] # "try" THEN 0
    ELSE LET i == SkipBody(lines, start + 1)
         IN  IF i > Len(lines) THEN 0
             ELSE IF lines[i] # "except" THEN 0
             ELSE i + 1 - start

\* The number of lines of the block, 0 for None.
_collect_try_except_block(lines, start) ==
    IF start > Len(lines) THEN 0
    ELSE IF lines[start] # "try" THEN 0
    ELSE LET i == SkipBody(lines, start + 1)
         IN  IF i > Len(lines) THEN 0
             ELSE IF lines[i] # "except" THEN 0
             ELSE SkipBody(lines, i + 1) - start

\* The loop of remove_namespace_declaration from line i on: the lines kept.
RECURSIVE RemoveFrom(_, _)
RemoveFrom(lines, i) ==
    IF i > Len(lines) THEN <<>>
    ELSE LET line == lines[i]
             block == _collect_try_except_block(lines, i)
         IN  IF /\ line = "try"
                /\ block # 0
                /\ \E k \in i..(i + block - 1) : _RE_PKG_RESOURCES(lines[k])
             THEN RemoveFrom(lines, SkipBlank(lines, i + block))
             ELSE IF _RE_PKG_RESOURCES(line)
             THEN RemoveFrom(lines, SkipBlank(lines, i + 1))
             ELSE IF _RE_PKGUTIL_IMPORT(line)
             THEN LET j == SkipBlank(lines, i + 1)
                  IN  IF j <= Len(lines) /\ _RE_PKGUTIL_PATH(lines[j])
                      THEN RemoveFrom(lines, SkipBlank(lines, j + 1))
                      ELSE RemoveFrom(lines, j)
             ELSE IF _RE_PKGUTIL_PATH(line)
             THEN RemoveFrom(lines, SkipBlank(lines, i + 1))
             ELSE <<line>> \o RemoveFrom(lines, i + 1)

\* text.strip("\n"): the blank lines at both ends go.
RECURSIVE StripNewlines(_)
StripNewlines(text) ==
    IF text = <<>> THEN <<>>
    ELSE IF Blank(Head(text)) THEN StripNewlines(Tail(text))
    ELSE IF Blank(text[Len(text)]) THEN StripNewlines(SubSeq(text, 1, Len(text) - 1))
    ELSE text

remove_namespace_declaration(text) ==
    LET kept == RemoveFrom(text, 1)
    IN  IF \A i \in DOMAIN kept : Blank(kept[i]) THEN <<>> ELSE StripNewlines(kept)

(***************************************************************************)
(* setup.py is the sequence of keyword lines of its setup() call, a line   *)
(* [kwarg, form]: form "list" is `kwarg=[...],` on one line, "value" is    *)
(* `kwarg=NAME,`, "broken" is a line ast.parse rejects.  setup.cfg is a    *)
(* sequence of lines: "section" ([options]), "key" (zip_safe = False),     *)
(* "ns_key" (namespace_packages = a), "cont" (an indented continuation).   *)
(***************************************************************************)
\* ast.parse(content) succeeds: no rejected line, no keyword given twice.
AstParses(text) ==
    /\ \A i \in DOMAIN text : text[i].form # "broken"
    /\ \A i, j \in DOMAIN text : text[i].kwarg = text[j].kwarg => i = j

_remove_setup_kwarg(text, kwarg_name) ==
    LET NotList(line) == ~(line.kwarg = kwarg_name /\ line.form = "list")
        NotKwarg(line) == line.kwarg # kwarg_name
        without == SelectSeq(text, NotList)
    IN  IF without # text THEN without
        \* pattern_ml matches only where pattern matched
        ELSE SelectSeq(text, NotKwarg)

\* pattern.sub("", content) of clean_setup_cfg_namespaces, from line i on;
\* inside is TRUE while the lines continue a namespace_packages key.
RECURSIVE CfgSub(_, _, _)
CfgSub(text, i, inside) ==
    IF i > Len(text) THEN <<>>
    ELSE IF text[i] = "ns_key" THEN CfgSub(text, i + 1, TRUE)
    ELSE IF inside /\ text[i] = "cont" THEN CfgSub(text, i + 1, TRUE)
    ELSE <<text[i]>> \o CfgSub(text, i + 1, FALSE)

(***************************************************************************)
(* The project tree.                                                       *)
(***************************************************************************)
\* sorted(project_dir.rglob("__init__.py"))
InitPaths == <<"a/__init__.py", "a/b/__init__.py", "build/a/__init__.py">>

Parts(path) ==
    CASE path = "a/__init__.py" -> <<"a", "__init__.py">>
      [] path = "a/b/__init__.py" -> <<"a", "b", "__init__.py">>
      [] path = "build/a/__init__.py" -> <<"build", "a", "__init__.py">>

Absent == [exists |-> FALSE, text |-> <<>>]

File(text) == [exists |-> TRUE, text |-> text]

\* The result list of find_namespace_init_files, from InitPaths[i] on.
RECURSIVE FindFrom(_, _)
FindFrom(tree_, i) ==
    IF i > Len(InitPaths) THEN <<>>
    ELSE LET init_file == InitPaths[i]
             parts == Parts(init_file)
             content_ == tree_[init_file].text
         IN  IF ~tree_[init_file].exists THEN FindFrom(tree_, i + 1)
             ELSE IF \E k \in DOMAIN parts : parts[k] \in {"build", "dist"}
             THEN FindFrom(tree_, i + 1)
             ELSE IF has_namespace_declaration(content_)
             THEN <<[path |-> init_file,
                     delete_entirely |-> is_only_namespace_init(content_)]>>
                  \o FindFrom(tree_, i + 1)
             ELSE FindFrom(tree_, i + 1)

find_namespace_init_files(tree_) == FindFrom(tree_, 1)

\* The inputs: an __init__.py is up to MaxItems top-level items, an item a
\* line at column 0 or a guard block.
TopLines == {<<l>> : l \in {"blank", "comment", "code", "decl", "pkgutil_import",
                            "pkgutil_path"}}

GuardBlocks ==
    {<<"try">> \o body \o handler :
        body \in {<<"idecl">>, <<"idecl", "icode">>, <<"icode">>},
        handler \in {<<"except", "ipass">>, <<"except", "icode">>,
                     <<"finally", "ipass">>}}

RECURSIVE Concat(_)
Concat(items) == IF items = <<>> THEN <<>> ELSE Head(items) \o Concat(Tail(items))

InitTexts == {Concat(items) : items \in SeqsUpTo(TopLines \cup GuardBlocks, MaxItems)}

Kw(kwarg, form) == [kwarg |-> kwarg, form |-> form]

SetupPyTexts ==
    {<<Kw("name", "value")>>,
     <<Kw("name", "value"), Kw("namespace_packages", "list")>>,
     <<Kw("name", "value"), Kw("namespace_packages", "value")>>,
     <<Kw("namespace_packages", "list"), Kw("setup_requires", "list")>>,
     <<Kw("namespace_packages", "list"), Kw("setup_requires", "value")>>,
     <<Kw("name", "value"), Kw("setup_requires", "list")>>,
     <<Kw("name", "broken"), Kw("namespace_packages", "list")>>}

SetupCfgTexts ==
    {<<"section", "key">>,
     <<"section", "ns_key", "key">>,
     <<"section", "ns_key", "cont", "key">>,
     <<"section", "key", "cont", "ns_key">>}

Tree(a, ab, build, py, cfg) ==
    [path \in {"a/__init__.py", "a/b/__init__.py", "build/a/__init__.py",
               "setup.py", "setup.cfg"} |->
        CASE path = "a/__init__.py" -> a
          [] path = "a/b/__init__.py" -> ab
          [] path = "build/a/__init__.py" -> build
          [] path = "setup.py" -> py
          [] path = "setup.cfg" -> cfg]

ProjectTrees ==
    {Tree(File(a), ab, build, py, cfg) :
        a \in InitTexts,
        ab \in {Absent, File(<<"decl", "code">>)},
        build \in {Absent, File(<<"decl">>)},
        py \in {Absent, File(<<Kw("namespace_packages", "list"),
                               Kw("setup_requires", "list")>>)},
        cfg \in {Absent, File(<<"section", "ns_key", "cont", "key">>)}}
    \cup
    {Tree(a, Absent, Absent, py, cfg) :
        a \in {Absent, File(<<"decl">>)},
        py \in {Absent} \cup {File(t) : t \in SetupPyTexts},
        cfg \in {Absent} \cup {File(t) : t \in SetupCfgTexts}}

(***************************************************************************)
(* remove_namespace_declaration, one iteration of its loop per step.       *)
(***************************************************************************)
RmInit ==
    /\ rmRestIdle
    /\ rmLines \in InitTexts
    /\ rmIndex = 1
    /\ rmKept = <<>>
    /\ rmReturn = <<>>
    /\ rmPc = "loop"

\* `if stripped == "try:"` with a block that holds a pkg_resources line.
GuardedAt(lines, i) ==
    /\ lines[i] = "try"
    /\ _collect_try_except_block(lines, i) # 0
    /\ \E k \in i..(i + _collect_try_except_block(lines, i) - 1) :
          _RE_PKG_RESOURCES(lines[k])

RemoveGuardBlock ==
    /\ rmPc = "loop"
    /\ rmIndex <= Len(rmLines)
    /\ GuardedAt(rmLines, rmIndex)
    /\ rmIndex' = SkipBlank(rmLines, rmIndex + _collect_try_except_block(rmLines, rmIndex))
    /\ UNCHANGED <<rmLines, rmKept, rmReturn, rmPc>>
    /\ UNCHANGED rmRest

\* `if _RE_PKG_RESOURCES.match(line)`
RemovePkgResources ==
    /\ rmPc = "loop"
    /\ rmIndex <= Len(rmLines)
    /\ ~GuardedAt(rmLines, rmIndex)
    /\ _RE_PKG_RESOURCES(rmLines[rmIndex])
    /\ rmIndex' = SkipBlank(rmLines, rmIndex + 1)
    /\ UNCHANGED <<rmLines, rmKept, rmReturn, rmPc>>
    /\ UNCHANGED rmRest

\* `if _RE_PKGUTIL_IMPORT.match(line)`
RemovePkgutilImport ==
    /\ rmPc = "loop"
    /\ rmIndex <= Len(rmLines)
    /\ _RE_PKGUTIL_IMPORT(rmLines[rmIndex])
    /\ LET j == SkipBlank(rmLines, rmIndex + 1)
       IN  rmIndex' = IF j <= Len(rmLines) /\ _RE_PKGUTIL_PATH(rmLines[j])
                      THEN SkipBlank(rmLines, j + 1)
                      ELSE j
    /\ UNCHANGED <<rmLines, rmKept, rmReturn, rmPc>>
    /\ UNCHANGED rmRest

\* `if _RE_PKGUTIL_PATH.match(line)`
RemovePkgutilPath ==
    /\ rmPc = "loop"
    /\ rmIndex <= Len(rmLines)
    /\ _RE_PKGUTIL_PATH(rmLines[rmIndex])
    /\ rmIndex' = SkipBlank(rmLines, rmIndex + 1)
    /\ UNCHANGED <<rmLines, rmKept, rmReturn, rmPc>>
    /\ UNCHANGED rmRest

\* `result.append(line); i += 1`
KeepLine ==
    /\ rmPc = "loop"
    /\ rmIndex <= Len(rmLines)
    /\ ~GuardedAt(rmLines, rmIndex)
    /\ ~_RE_PKG_RESOURCES(rmLines[rmIndex])
    /\ ~_RE_PKGUTIL_IMPORT(rmLines[rmIndex])
    /\ ~_RE_PKGUTIL_PATH(rmLines[rmIndex])
    /\ rmKept' = Append(rmKept, rmLines[rmIndex])
    /\ rmIndex' = rmIndex + 1
    /\ UNCHANGED <<rmLines, rmReturn, rmPc>>
    /\ UNCHANGED rmRest

\* `return text.strip("\n") + "\n" if text.strip() else ""`
ReturnText ==
    /\ rmPc = "loop"
    /\ rmIndex > Len(rmLines)
    /\ rmReturn' = IF \A i \in DOMAIN rmKept : Blank(rmKept[i]) THEN <<>>
                   ELSE StripNewlines(rmKept)
    /\ rmPc' = "done"
    /\ UNCHANGED <<rmLines, rmIndex, rmKept>>
    /\ UNCHANGED rmRest

RmNext ==
    \/ RemoveGuardBlock \/ RemovePkgResources \/ RemovePkgutilImport
    \/ RemovePkgutilPath \/ KeepLine \/ ReturnText

SpecRemove == RmInit /\ [][RmNext]_vars

(***************************************************************************)
(* migrate_namespaces.                                                     *)
(***************************************************************************)
NsInit ==
    /\ nsRestIdle
    /\ fs \in ProjectTrees
    /\ before = fs
    /\ dry_run \in BOOLEAN
    /\ init_files = <<>>
    /\ nsIndex = 1
    /\ deleted = <<>>
    /\ modified = <<>>
    /\ nsPc = "find"

\* `init_files = find_namespace_init_files(project_dir)`
FindInitFiles ==
    /\ nsPc = "find"
    /\ init_files' = find_namespace_init_files(fs)
    /\ nsPc' = "loop"
    /\ UNCHANGED <<fs, before, dry_run, nsIndex, deleted, modified>>
    /\ UNCHANGED nsRest

\* One iteration of the loop with delete_entirely.
DeleteInitFile ==
    /\ nsPc = "loop"
    /\ nsIndex <= Len(init_files)
    /\ init_files[nsIndex].delete_entirely
    /\ LET filepath == init_files[nsIndex].path
       IN  /\ fs' = IF dry_run THEN fs ELSE [fs EXCEPT ![filepath] = Absent]
           /\ deleted' = Append(deleted, filepath)
    /\ nsIndex' = nsIndex + 1
    /\ UNCHANGED <<before, dry_run, init_files, modified, nsPc>>
    /\ UNCHANGED nsRest

\* One iteration of the loop without delete_entirely.
EditInitFile ==
    /\ nsPc = "loop"
    /\ nsIndex <= Len(init_files)
    /\ ~init_files[nsIndex].delete_entirely
    /\ LET filepath == init_files[nsIndex].path
           content_ == fs[filepath].text
           new_content == remove_namespace_declaration(content_)
       IN  IF new_content # content_
           THEN /\ fs' = IF dry_run THEN fs
                         ELSE [fs EXCEPT ![filepath] = File(new_content)]
                /\ modified' = Append(modified, filepath)
           ELSE UNCHANGED <<fs, modified>>
    /\ nsIndex' = nsIndex + 1
    /\ UNCHANGED <<before, dry_run, init_files, deleted, nsPc>>
    /\ UNCHANGED nsRest

\* `if clean_setup_py_namespaces(project_dir, dry_run): modified.append(...)`
CleanSetupPy ==
    /\ nsPc = "loop"
    /\ nsIndex > Len(init_files)
    /\ LET setup_py == fs["setup.py"]
           content_ == setup_py.text
           has_ns_packages ==
               \E i \in DOMAIN content_ : content_[i].kwarg = "namespace_packages"
           new_content == _remove_setup_kwarg(
               _remove_setup_kwarg(content_, "namespace_packages"), "setup_requires")
       IN  IF /\ setup_py.exists
              /\ AstParses(content_)
              /\ has_ns_packages
              /\ new_content # content_
           THEN /\ fs' = IF dry_run THEN fs
                         ELSE [fs EXCEPT !["setup.py"] = File(new_content)]
                /\ modified' = Append(modified, "setup.py")
           ELSE UNCHANGED <<fs, modified>>
    /\ nsPc' = "setup_cfg"
    /\ UNCHANGED <<before, dry_run, init_files, nsIndex, deleted>>
    /\ UNCHANGED nsRest

\* `if clean_setup_cfg_namespaces(project_dir, dry_run): modified.append(...)`
\* and the return.
CleanSetupCfg ==
    /\ nsPc = "setup_cfg"
    /\ LET setup_cfg == fs["setup.cfg"]
           content_ == setup_cfg.text
           new_content == CfgSub(content_, 1, FALSE)
       IN  IF setup_cfg.exists /\ new_content # content_
           THEN /\ fs' = IF dry_run THEN fs
                         ELSE [fs EXCEPT !["setup.cfg"] = File(new_content)]
                /\ modified' = Append(modified, "setup.cfg")
           ELSE UNCHANGED <<fs, modified>>
    /\ nsPc' = "done"
    /\ UNCHANGED <<before, dry_run, init_files, nsIndex, deleted>>
    /\ UNCHANGED nsRest

NsNext ==
    FindInitFiles \/ DeleteInitFile \/ EditInitFile \/ CleanSetupPy \/ CleanSetupCfg

SpecNs == NsInit /\ [][NsNext]_vars

(***************************************************************************)
(* merge_metadata.  A value is [type, items]: None, a string (its          *)
(* characters), a list (its elements) or a mapping (its keys).             *)
(***************************************************************************)
Value(type, items) == [type |-> type, items |-> items]

\* `val is not None and val != "" and val != []`
Overrides(val) ==
    /\ val.type # "none"
    /\ ~(val.type = "str" /\ val.items = <<>>)
    /\ ~(val.type = "list" /\ val.items = <<>>)

\* result[key] = val
SetItem(d, key, val) ==
    [k \in DOMAIN d \cup {key} |-> IF k = key THEN val ELSE d[k]]

MetadataKeys == {"name", "install_requires", "extras_require"}

Values ==
    {Value("none", <<>>)}
    \cup {Value(t, i) : t \in {"str", "list", "map"}, i \in {<<>>, <<"a">>, <<"b">>}}

\* The records of up to MaxKeys keys.
Records ==
    UNION {[K -> Values] : K \in {S \in SUBSET MetadataKeys : Cardinality(S) <= MaxKeys}}

\* A record's items in any dictionary order.
ItemLists ==
    {its \in SeqsUpTo([key : MetadataKeys, val : Values], MaxKeys) :
        \A i, j \in DOMAIN its : its[i].key = its[j].key => i = j}

MergeInit ==
    /\ mergeRestIdle
    /\ setup_py_data \in Records
    /\ setup_cfg_data \in ItemLists
    /\ merged = <<>>
    /\ mergeIndex = 1
    /\ mergePc = "start"

\* `result = dict(setup_py_data)`
CopySetupPy ==
    /\ mergePc = "start"
    /\ merged' = setup_py_data
    /\ mergePc' = "loop"
    /\ UNCHANGED <<setup_py_data, setup_cfg_data, mergeIndex>>
    /\ UNCHANGED mergeRest

\* One iteration of `for key, val in setup_cfg_data.items()`.
MergeItem ==
    /\ mergePc = "loop"
    /\ mergeIndex <= Len(setup_cfg_data)
    /\ LET key == setup_cfg_data[mergeIndex].key
           val == setup_cfg_data[mergeIndex].val
       IN  merged' = IF Overrides(val) THEN SetItem(merged, key, val) ELSE merged
    /\ mergeIndex' = mergeIndex + 1
    /\ UNCHANGED <<setup_py_data, setup_cfg_data, mergePc>>
    /\ UNCHANGED mergeRest

\* `return result`
ReturnMerged ==
    /\ mergePc = "loop"
    /\ mergeIndex > Len(setup_cfg_data)
    /\ mergePc' = "done"
    /\ UNCHANGED <<setup_py_data, setup_cfg_data, merged, mergeIndex>>
    /\ UNCHANGED mergeRest

MergeNext == CopySetupPy \/ MergeItem \/ ReturnMerged

SpecMerge == MergeInit /\ [][MergeNext]_vars

(***************************************************************************)
(* zcml_migrator.py.  The replacement pairs are built from the entries of  *)
(* the configuration and applied to the text of one file.                  *)
(***************************************************************************)
\* list.sort(key=len(old), reverse=True): stable, so pairs of one length keep
\* the order of the configuration.
RECURSIVE SortByLenDesc(_)
SortByLenDesc(pairs) ==
    IF pairs = <<>> THEN <<>>
    ELSE LET sorted == SortByLenDesc(SubSeq(pairs, 1, Len(pairs) - 1))
             p == pairs[Len(pairs)]
             before_ == SelectSeq(sorted, LAMBDA q : Len(q.old) >= Len(p.old))
             after_ == SelectSeq(sorted, LAMBDA q : Len(q.old) < Len(p.old))
         IN  before_ \o <<p>> \o after_

\* The pairs in the order of the configuration, with no sort.
_build_replacements_Unsorted(entries) == entries

_build_replacements(entries) == SortByLenDesc(entries)

\* The two literals a view replacement looks for: "old" and >old<.
Quoted(view) == <<"\"">> \o view \o <<"\"">>
Element(view) == <<">">> \o view \o <<"<">>

\* A file holds a dotted name, or a view name as an attribute value or as
\* the text of an element.
ZcTexts == Texts \cup {Quoted(<<c>>) : c \in Chars} \cup {Element(<<c>>) : c \in Chars}

ViewPairs == {[old |-> <<o>>, new |-> <<n>>] : o \in Chars, n \in {"b", "c"}}

\* A dict holds a key once.
ViewItems ==
    {v \in SeqsUpTo(ViewPairs, MaxPairs) :
        \A i, j \in DOMAIN v : i # j => v[i].old # v[j].old}

ZcInit ==
    /\ zcRestIdle
    /\ zcEntries \in PairLists
    /\ zcContent \in ZcTexts
    /\ \/ zcCall = "zcml" /\ zcViews = <<>>
       \/ zcCall = "genericsetup" /\ zcViews \in ViewItems
    /\ zcReplacements = <<>>
    /\ zcResult = <<>>
    /\ zcLoop = "build"
    /\ zcIndex = 1

\* migrate_zcml_files / migrate_genericsetup_files up to the call of the
\* content function on the file, and its `result = content`.
BuildReplacements ==
    /\ zcLoop = "build"
    /\ zcReplacements' = _build_replacements(zcEntries)
    /\ zcResult' = zcContent
    /\ zcLoop' = "replacements"
    /\ UNCHANGED <<zcCall, zcEntries, zcViews, zcContent, zcIndex>>
    /\ UNCHANGED zcRest

\* One iteration of `for old, new in replacements`.
ApplyDottedName ==
    /\ zcLoop = "replacements"
    /\ zcIndex <= Len(zcReplacements)
    /\ zcResult' = Replace(zcResult, zcReplacements[zcIndex].old, zcReplacements[zcIndex].new)
    /\ zcIndex' = zcIndex + 1
    /\ UNCHANGED <<zcCall, zcEntries, zcViews, zcContent, zcReplacements, zcLoop>>
    /\ UNCHANGED zcRest

\* migrate_zcml_content: `return result`; migrate_genericsetup_content with
\* no view replacements: `return result`.
ReturnZcml ==
    /\ zcLoop = "replacements"
    /\ zcIndex > Len(zcReplacements)
    /\ zcCall = "zcml" \/ zcViews = <<>>
    /\ zcLoop' = "done"
    /\ UNCHANGED <<zcCall, zcEntries, zcViews, zcContent, zcReplacements, zcResult, zcIndex>>
    /\ UNCHANGED zcRest

\* migrate_genericsetup_content: `if view_replacements:`.
StartViews ==
    /\ zcLoop = "replacements"
    /\ zcIndex > Len(zcReplacements)
    /\ zcCall = "genericsetup" /\ zcViews # <<>>
    /\ zcLoop' = "views"
    /\ zcIndex' = 1
    /\ UNCHANGED <<zcCall, zcEntries, zcViews, zcContent, zcReplacements, zcResult>>
    /\ UNCHANGED zcRest

\* One iteration of `for old_view, new_view in view_replacements.items()`.
ApplyView ==
    /\ zcLoop = "views"
    /\ zcIndex <= Len(zcViews)
    /\ zcResult' =
          Replace(Replace(zcResult, Quoted(zcViews[zcIndex].old), Quoted(zcViews[zcIndex].new)),
                  Element(zcViews[zcIndex].old), Element(zcViews[zcIndex].new))
    /\ zcIndex' = zcIndex + 1
    /\ UNCHANGED <<zcCall, zcEntries, zcViews, zcContent, zcReplacements, zcLoop>>
    /\ UNCHANGED zcRest

\* migrate_genericsetup_content: `return result`.
ReturnGenericSetup ==
    /\ zcLoop = "views"
    /\ zcIndex > Len(zcViews)
    /\ zcLoop' = "done"
    /\ UNCHANGED <<zcCall, zcEntries, zcViews, zcContent, zcReplacements, zcResult, zcIndex>>
    /\ UNCHANGED zcRest

ZcNext ==
    \/ BuildReplacements \/ ApplyDottedName \/ ReturnZcml
    \/ StartViews \/ ApplyView \/ ReturnGenericSetup

SpecZcml == ZcInit /\ [][ZcNext]_vars

(***************************************************************************)
(* parse_setup_py.  An expression of setup.py is a node of its syntax      *)
(* tree; a string value is the sequence of its parts, so that a prefix     *)
(* test (startswith) and a concatenation are what they are in the code.    *)
(***************************************************************************)
_UNRESOLVED == Value("unresolved", <<>>)

Str(parts) == Value("str", parts)

Constant(value) == [node |-> "Constant", value |-> value]
Name(id) == [node |-> "Name", id |-> id]
List(elts) == [node |-> "List", elts |-> elts]
Tuple(elts) == [node |-> "Tuple", elts |-> elts]
\* A key of None (Expansion) is a `**mapping` inside the literal.
Expansion == [node |-> "None"]
Dict(keys_, values_) == [node |-> "Dict", keys |-> keys_, values |-> values_]
BinOpAdd(left, right) == [node |-> "BinOp", left |-> left, right |-> right]
\* func: "dict", "find_packages", "open.read" (open(<args>).read()),
\* "Path.read_text" (Path(<args>).read_text()), "str.format"
\* ("...".format(<args>)), "str.join" ("...".join(<args>)), or any other
\* callable's name.
Call(func, args, kws) == [node |-> "Call", func |-> func, args |-> args, keywords |-> kws]
Keyword(arg, value) == [arg |-> arg, value |-> value]

\* _is_doc_filename on the name's first part.
_is_doc_filename(filename) ==
    filename # <<>> /\ filename[1] \in {"README", "CHANGES", "CHANGELOG", "HISTORY", "NEWS"}

\* f"{value}": a string as it is, any other value by its repr.
FormatValue(val) == IF val.type = "str" THEN val.items ELSE <<"repr(", val.type, ")">>

IsFileRef(val) == val.type = "str" /\ val.items # <<>> /\ val.items[1] = "__file__:"

IsStrConstant(n) == n.node = "Constant" /\ n.value.type = "str"

\* The file name of open('file').read() or Path('file').read_text(), or None.
_detect_file_read_chain(n) ==
    IF /\ n.func \in {"open.read", "Path.read_text"}
       /\ n.args # <<>>
       /\ IsStrConstant(n.args[1])
    THEN n.args[1].value.items
    ELSE NoneVal

RECURSIVE _eval_node(_, _)
_eval_node(n, vars_) ==
    LET evalAll(nodes) == [i \in 1..Len(nodes) |-> _eval_node(nodes[i], vars_)]
        unresolvedIn(vals) == \E i \in DOMAIN vals : vals[i].type = "unresolved"
    IN
    IF n.node = "Constant" THEN n.value
    ELSE IF n.node = "Name"
    THEN IF n.id \in DOMAIN vars_ THEN vars_[n.id] ELSE _UNRESOLVED
    ELSE IF n.node = "List"
    THEN IF unresolvedIn(evalAll(n.elts)) THEN _UNRESOLVED
         ELSE Value("list", evalAll(n.elts))
    ELSE IF n.node = "Tuple"
    THEN IF unresolvedIn(evalAll(n.elts)) THEN _UNRESOLVED
         ELSE Value("tuple", evalAll(n.elts))
    ELSE IF n.node = "Dict"
    THEN IF \/ \E i \in DOMAIN n.keys : n.keys[i].node = "None"
            \/ unresolvedIn(evalAll(SelectSeq(n.keys, LAMBDA k : k.node # "None")))
            \/ unresolvedIn(evalAll(n.values))
         THEN _UNRESOLVED
         ELSE Value("map", [i \in 1..Len(n.keys) |->
                    <<_eval_node(n.keys[i], vars_), _eval_node(n.values[i], vars_)>>])
    ELSE IF n.node = "BinOp"
    THEN LET left == _eval_node(n.left, vars_)
             right == _eval_node(n.right, vars_)
         IN  IF left.type = "str" /\ right.type = "str"
             THEN IF IsFileRef(left) THEN left ELSE Str(left.items \o right.items)
             ELSE _UNRESOLVED
    ELSE IF n.func = "dict"
    THEN IF \/ \E i \in DOMAIN n.keywords : n.keywords[i].arg = NoneVal
            \/ unresolvedIn([i \in 1..Len(n.keywords) |->
                                _eval_node(n.keywords[i].value, vars_)])
         THEN _UNRESOLVED
         ELSE Value("map", [i \in 1..Len(n.keywords) |->
                    <<Str(<<n.keywords[i].arg>>), _eval_node(n.keywords[i].value, vars_)>>])
    ELSE IF n.func = "find_packages"
    THEN IF n.args # <<>> /\ _eval_node(n.args[1], vars_).type # "unresolved"
         THEN Str(<<"find_packages:">> \o FormatValue(_eval_node(n.args[1], vars_)))
         ELSE Str(<<"find_packages:", ".">>)
    ELSE IF _detect_file_read_chain(n) # NoneVal
    THEN Str(<<"__file__:">> \o _detect_file_read_chain(n))
    ELSE IF /\ n.func = "str.format"
            /\ n.args # <<>>
            /\ IsFileRef(_eval_node(n.args[1], vars_))
    THEN _eval_node(n.args[1], vars_)
    ELSE IF /\ n.func \notin {"open.read", "Path.read_text"}
                    \* the outer .read() and .read_text() calls have no arguments
            /\ n.args # <<>>
            /\ IsStrConstant(n.args[1])
            /\ _is_doc_filename(n.args[1].value.items)
    THEN Str(<<"__file__:">> \o n.args[1].value.items)
    ELSE _UNRESOLVED

\* The expressions of a setup.py.
LeafNodes ==
    {Constant(Str(<<"1.0">>)), Constant(Value("none", <<>>)),
     Constant(Str(<<"README", ".rst">>)), Name("v"), Call("get_version", <<>>, <<>>)}

CompoundNodes ==
    {List(<<Constant(Str(<<"1.0">>)), Name("v")>>),
     Tuple(<<Constant(Str(<<"1.0">>))>>),
     Dict(<<Constant(Str(<<"test">>))>>, <<Name("v")>>),
     Dict(<<Expansion>>, <<Name("v")>>),
     Call("dict", <<>>, <<Keyword("test", List(<<Name("v")>>))>>),
     Call("find_packages", <<Constant(Str(<<"src">>))>>, <<>>),
     Call("find_packages", <<Call("get_version", <<>>, <<>>)>>, <<>>),
     BinOpAdd(Constant(Str(<<"1.0">>)), Name("v")),
     BinOpAdd(Call("open.read", <<Constant(Str(<<"README", ".rst">>))>>, <<>>),
              Constant(Str(<<"1.0">>))),
     Call("open.read", <<Name("v")>>, <<>>),
     Call("str.format", <<Call("read", <<Constant(Str(<<"README", ".rst">>))>>, <<>>)>>, <<>>),
     Call("str.format", <<Constant(Str(<<"1.0">>))>>, <<>>),
     Call("read", <<Constant(Str(<<"version", ".txt">>))>>, <<>>)}

Nodes == LeafNodes \cup CompoundNodes

\* The expressions that read files, as the value of long_description.
Readme == Constant(Str(<<"README", ".rst">>))

Changes == Constant(Str(<<"CHANGES", ".rst">>))

FileReads ==
    {Call("open.read", <<Readme>>, <<>>),
     Call("Path.read_text", <<Readme>>, <<>>),
     Call("read", <<Readme>>, <<>>),
     Call("str.format", <<Call("read", <<Readme>>, <<>>), Call("read", <<Changes>>, <<>>)>>,
          <<>>),
     BinOpAdd(BinOpAdd(Call("read", <<Readme>>, <<>>), Constant(Str(<<"\n">>))),
              Call("read", <<Changes>>, <<>>)),
     BinOpAdd(Constant(Str(<<"\n">>)), Call("open.read", <<Readme>>, <<>>)),
     Call("str.join", <<List(<<Call("open.read", <<Readme>>, <<>>),
                              Call("open.read", <<Changes>>, <<>>)>>)>>, <<>>)}

\* The names of the keyword arguments; None is a `**kwargs` expansion.
KeywordArgs == {"name", "version", "_warnings", NoneVal}

Assignments == {[target |-> "v", value |-> n] : n \in LeafNodes}

EvInit ==
    /\ evRestIdle
    /\ assigns \in SeqsUpTo(Assignments, MaxAssigns)
    /\ keywords \in SeqsUpTo({Keyword(a, n) : a \in KeywordArgs, n \in Nodes}
                               \cup {Keyword("long_description", n) : n \in FileReads},
                            MaxKeywords)
    /\ module_vars = <<>>
    /\ extracted = <<>>
    /\ evIndex = 1
    /\ evPc = "collect"

\* The body of the loop of _collect_module_vars.
CollectStep(vars_, assign) ==
    LET val == _eval_node(assign.value, vars_)
    IN  IF val.type # "unresolved" THEN SetItem(vars_, assign.target, val) ELSE vars_

Warning(arg) == Str(<<"Could not resolve value for '", arg, "'">>)

\* The body of the loop of _extract_setup_kwargs: the new `result`, or
\* raised when list.append is called on a result["_warnings"] that is no
\* longer a list (AttributeError).
ExtractStep(res, kw, vars_) ==
    LET val == _eval_node(kw.value, vars_)
    IN  IF kw.arg = NoneVal THEN [result |-> res, raised |-> FALSE]
        ELSE IF val.type = "unresolved"
        THEN IF res["_warnings"].type = "list"
             THEN [result |-> [res EXCEPT !["_warnings"] =
                                Value("list", Append(@.items, Warning(kw.arg)))],
                   raised |-> FALSE]
             ELSE [result |-> res, raised |-> TRUE]
        ELSE [result |-> SetItem(res, kw.arg, val), raised |-> FALSE]

\* _collect_module_vars: one iteration over the module's assignments.
CollectModuleVar ==
    /\ evPc = "collect"
    /\ evIndex <= Len(assigns)
    /\ module_vars' = CollectStep(module_vars, assigns[evIndex])
    /\ evIndex' = evIndex + 1
    /\ UNCHANGED <<assigns, keywords, extracted, evPc>>
    /\ UNCHANGED evRest

\* The setup() call is found; _extract_setup_kwargs: result["_warnings"] = [].
StartExtract ==
    /\ evPc = "collect"
    /\ evIndex > Len(assigns)
    /\ extracted' = SetItem(<<>>, "_warnings", Value("list", <<>>))
    /\ evIndex' = 1
    /\ evPc' = "extract"
    /\ UNCHANGED <<assigns, keywords, module_vars>>
    /\ UNCHANGED evRest

\* One iteration of `for kw in node.keywords`.
ExtractKeyword ==
    /\ evPc = "extract"
    /\ evIndex <= Len(keywords)
    /\ LET step == ExtractStep(extracted, keywords[evIndex], module_vars)
       IN  /\ extracted' = step.result
           /\ evPc' = IF step.raised THEN "raised" ELSE evPc
    /\ evIndex' = evIndex + 1
    /\ UNCHANGED <<assigns, keywords, module_vars>>
    /\ UNCHANGED evRest

\* `return result`
ReturnExtracted ==
    /\ evPc = "extract"
    /\ evIndex > Len(keywords)
    /\ evPc' = "done"
    /\ UNCHANGED <<assigns, keywords, module_vars, extracted, evIndex>>
    /\ UNCHANGED evRest

EvNext == CollectModuleVar \/ StartExtract \/ ExtractKeyword \/ ReturnExtracted

SpecEval == EvInit /\ [][EvNext]_vars

(***************************************************************************)
(* The file walkers of zcml_migrator.py and pt_migrator.py, on a tree      *)
(* path -> [exists, text].  A walker returns the tree it leaves and its    *)
(* list of modified files.                                                 *)
(***************************************************************************)
\* `for old, new in pairs: result = result.replace(old, new)`
RECURSIVE ReplaceEach(_, _)
ReplaceEach(text, pairs) ==
    IF pairs = <<>> THEN text
    ELSE ReplaceEach(Replace(text, Head(pairs).old, Head(pairs).new), Tail(pairs))

migrate_pt_content(text, reps) == ReplaceEach(text, reps)

migrate_bootstrap_content(text, data, classes) ==
    ReplaceEach(ReplaceEach(text, data), classes)

migrate_zcml_content(text, reps) == ReplaceEach(text, reps)

RECURSIVE ReplaceViews(_, _)
ReplaceViews(text, views) ==
    IF views = <<>> THEN text
    ELSE ReplaceViews(
            Replace(Replace(text, Quoted(Head(views).old), Quoted(Head(views).new)),
                    Element(Head(views).old), Element(Head(views).new)),
            Tail(views))

migrate_genericsetup_content(text, reps, views) ==
    ReplaceViews(ReplaceEach(text, reps), views)

\* sorted(root.rglob(pattern)): of the paths matching the pattern, in sorted
\* order, those the tree holds.
Rglob(tree_, paths) == SelectSeq(paths, LAMBDA path : tree_[path].exists)

\* transformer(content, **kwargs): a call is the transformer and its keyword
\* arguments.
ZcmlCall(reps) == [transformer |-> "migrate_zcml_content", replacements |-> reps]

GenericSetupCall(reps, views) ==
    [transformer |-> "migrate_genericsetup_content", replacements |-> reps,
     view_replacements |-> views]

PtCall(reps) == [transformer |-> "migrate_pt_content", replacements |-> reps]

BootstrapCall(data, classes) ==
    [transformer |-> "migrate_bootstrap_content", data_attributes |-> data,
     css_classes |-> classes]

Transform(call, text) ==
    CASE call.transformer = "migrate_zcml_content" ->
            migrate_zcml_content(text, call.replacements)
      [] call.transformer = "migrate_genericsetup_content" ->
            migrate_genericsetup_content(text, call.replacements, call.view_replacements)
      [] call.transformer = "migrate_pt_content" ->
            migrate_pt_content(text, call.replacements)
      [] call.transformer = "migrate_bootstrap_content" ->
            migrate_bootstrap_content(text, call.data_attributes, call.css_classes)

\* A migrate_file that reports every file it reads as modified.
migrate_file_AlwaysModified(tree_, filepath, call) ==
    LET new_content == Transform(call, tree_[filepath].text)
    IN  [fs |-> IF new_content # tree_[filepath].text
                THEN [tree_ EXCEPT ![filepath] = File(new_content)] ELSE tree_,
         modified |-> TRUE]

\* migrate_file: the tree it leaves and the boolean it returns.
migrate_file(tree_, filepath, call) ==
    LET new_content == Transform(call, tree_[filepath].text)
    IN  IF new_content # tree_[filepath].text
        THEN [fs |-> [tree_ EXCEPT ![filepath] = File(new_content)], modified |-> TRUE]
        ELSE [fs |-> tree_, modified |-> FALSE]

\* The loop of migrate_zcml_files and of migrate_genericsetup_files over the
\* files it does not skip.
MigrateEach(tree_, paths, call, dry) ==
    LET F[i \in 0..Len(paths)] ==
            IF i = 0 THEN [fs |-> tree_, modified |-> <<>>]
            ELSE IF dry
            THEN IF Transform(call, F[i - 1].fs[paths[i]].text) # F[i - 1].fs[paths[i]].text
                 THEN [fs |-> F[i - 1].fs, modified |-> Append(F[i - 1].modified, paths[i])]
                 ELSE F[i - 1]
            ELSE LET migrated == migrate_file(F[i - 1].fs, paths[i], call)
                 IN  [fs |-> migrated.fs,
                      modified |-> IF migrated.modified
                                   THEN Append(F[i - 1].modified, paths[i])
                                   ELSE F[i - 1].modified]
    IN  F[Len(paths)]

\* *.zcml and *.xml under the root, sorted.
ZcmlPaths == <<"a.zcml", "b.zcml">>

XmlPaths == <<"a.zcml.xml", "c.xml", "profiles/a.xml", "registry.xml">>

\* The *.xml files migrate_genericsetup_files does not skip.
GenericSetupFile(path) == path \in {"profiles/a.xml", "registry.xml"}

migrate_zcml_files(tree_, entries, dry) ==
    MigrateEach(tree_, Rglob(tree_, ZcmlPaths), ZcmlCall(_build_replacements(entries)), dry)

migrate_genericsetup_files(tree_, entries, views, dry) ==
    MigrateEach(tree_, SelectSeq(Rglob(tree_, XmlPaths), GenericSetupFile),
                GenericSetupCall(_build_replacements(entries), views), dry)

_migrate_files(tree_, paths, call, dry) ==
    LET found == Rglob(tree_, paths)
        F[i \in 0..Len(found)] ==
            IF i = 0 THEN [fs |-> tree_, modified |-> <<>>]
            ELSE LET filepath == found[i]
                     new_content == Transform(call, F[i - 1].fs[filepath].text)
                 IN  IF new_content # F[i - 1].fs[filepath].text
                     THEN [fs |-> IF dry THEN F[i - 1].fs
                                  ELSE [F[i - 1].fs EXCEPT ![filepath] = File(new_content)],
                           modified |-> Append(F[i - 1].modified, filepath)]
                     ELSE F[i - 1]
    IN  F[Len(found)]

PtPaths == <<"a.pt", "b.pt">>

HtmlPaths == <<"a.html">>

migrate_pt_files(tree_, reps, dry) ==
    IF reps = <<>> THEN [fs |-> tree_, modified |-> <<>>]
    ELSE _migrate_files(tree_, PtPaths, PtCall(reps), dry)

migrate_bootstrap_files(tree_, data, classes, dry) ==
    IF data = <<>> /\ classes = <<>> THEN [fs |-> tree_, modified |-> <<>>]
    ELSE LET pt == _migrate_files(tree_, PtPaths, BootstrapCall(data, classes), dry)
             html == _migrate_files(pt.fs, HtmlPaths, BootstrapCall(data, classes), dry)
         IN  [fs |-> html.fs, modified |-> pt.modified \o html.modified]

\* One iteration of the loop of migrate_namespaces over init_files.
MigrateInitFile(acc, entry, dry) ==
    IF entry.delete_entirely
    THEN [fs |-> IF dry THEN acc.fs ELSE [acc.fs EXCEPT ![entry.path] = Absent],
          deleted |-> Append(acc.deleted, entry.path),
          modified |-> acc.modified]
    ELSE IF remove_namespace_declaration(acc.fs[entry.path].text) # acc.fs[entry.path].text
    THEN [fs |-> IF dry THEN acc.fs
                 ELSE [acc.fs EXCEPT ![entry.path] =
                          File(remove_namespace_declaration(acc.fs[entry.path].text))],
          deleted |-> acc.deleted,
          modified |-> Append(acc.modified, entry.path)]
    ELSE acc

RECURSIVE MigrateInitFiles(_, _, _)
MigrateInitFiles(acc, found, dry) ==
    IF found = <<>> THEN acc
    ELSE MigrateInitFiles(MigrateInitFile(acc, Head(found), dry), Tail(found), dry)

\* clean_setup_py_namespaces: the tree it leaves and the boolean it returns.
clean_setup_py_namespaces(tree_, dry) ==
    LET new_content == _remove_setup_kwarg(
                          _remove_setup_kwarg(tree_["setup.py"].text, "namespace_packages"),
                          "setup_requires")
    IN  IF /\ tree_["setup.py"].exists
           /\ AstParses(tree_["setup.py"].text)
           /\ \E i \in DOMAIN tree_["setup.py"].text :
                  tree_["setup.py"].text[i].kwarg = "namespace_packages"
           /\ new_content # tree_["setup.py"].text
        THEN [fs |-> IF dry THEN tree_ ELSE [tree_ EXCEPT !["setup.py"] = File(new_content)],
              changed |-> TRUE]
        ELSE [fs |-> tree_, changed |-> FALSE]

\* clean_setup_cfg_namespaces: the tree it leaves and the boolean it returns.
clean_setup_cfg_namespaces(tree_, dry) ==
    IF /\ tree_["setup.cfg"].exists
       /\ CfgSub(tree_["setup.cfg"].text, 1, FALSE) # tree_["setup.cfg"].text
    THEN [fs |-> IF dry THEN tree_
                 ELSE [tree_ EXCEPT !["setup.cfg"] =
                          File(CfgSub(tree_["setup.cfg"].text, 1, FALSE))],
          changed |-> TRUE]
    ELSE [fs |-> tree_, changed |-> FALSE]

\* `if clean_...(project_dir, dry_run): modified.append(project_dir / name)`
AppendIf(flag, list, name) == IF flag THEN Append(list, name) ELSE list

\* migrate_namespaces: the tree it leaves and the two lists it returns.
migrate_namespaces(tree_, dry) ==
    LET inits == MigrateInitFiles([fs |-> tree_, deleted |-> <<>>, modified |-> <<>>],
                                  find_namespace_init_files(tree_), dry)
        py == clean_setup_py_namespaces(inits.fs, dry)
        cfg == clean_setup_cfg_namespaces(py.fs, dry)
    IN  [fs |-> cfg.fs,
         deleted |-> inits.deleted,
         modified |-> AppendIf(cfg.changed,
                               AppendIf(py.changed, inits.modified, "setup.py"),
                               "setup.cfg")]

(***************************************************************************)
(* migrate_packaging.  The text of setup.py is its syntax tree, the text   *)
(* of setup.cfg its sections, the text of pyproject.toml the document      *)
(* tomlkit parses and dumps: its tables and, per table, its entries.       *)
(* Of the [project] fields the model keeps name, version, dynamic and      *)
(* dependencies; of setup.cfg, [metadata] and [flake8].                    *)
(***************************************************************************)
\* _collect_module_vars
_collect_module_vars(assigns_) ==
    LET F[i \in 0..Len(assigns_)] ==
            IF i = 0 THEN <<>> ELSE CollectStep(F[i - 1], assigns_[i])
    IN  F[Len(assigns_)]

\* _extract_setup_kwargs
_extract_setup_kwargs(keywords_, vars_) ==
    LET F[i \in 0..Len(keywords_)] ==
            IF i = 0
            THEN [result |-> SetItem(<<>>, "_warnings", Value("list", <<>>)),
                  raised |-> FALSE]
            ELSE IF F[i - 1].raised THEN F[i - 1]
            ELSE ExtractStep(F[i - 1].result, keywords_[i], vars_)
    IN  F[Len(keywords_)]

\* A setup.py: whether ast.parse accepts it, whether it holds a setup() call,
\* its module-level assignments and the keywords of the call.
SetupPy(syntax_ok, call, assigns_, keywords_) ==
    [syntax_ok |-> syntax_ok, call |-> call, assigns |-> assigns_, keywords |-> keywords_]

parse_setup_py(text) ==
    IF ~text.syntax_ok \/ ~text.call THEN [result |-> <<>>, raised |-> FALSE]
    ELSE _extract_setup_kwargs(text.keywords, _collect_module_vars(text.assigns))

\* A setup.cfg: the options of [metadata] in order, and whether it holds a
\* [flake8] section.
SetupCfg(metadata_, flake8) == [metadata |-> metadata_, flake8 |-> flake8]

parse_setup_cfg(text) ==
    LET F[i \in 0..Len(text.metadata)] ==
            IF i = 0 THEN <<>>
            ELSE SetItem(F[i - 1], text.metadata[i].key, text.metadata[i].val)
    IN  F[Len(text.metadata)]

\* convert_tool_configs: the tool tables, by name.
convert_tool_configs(text) == IF text.flake8 THEN {"ruff"} ELSE {}

\* merge_metadata on two mappings.
merge_metadata(py_data, cfg_data) ==
    LET keys_ == DOMAIN cfg_data
    IN  [k \in DOMAIN py_data \cup {c \in keys_ : Overrides(cfg_data[c])} |->
            IF k \in keys_ /\ Overrides(cfg_data[k]) THEN cfg_data[k] ELSE py_data[k]]

\* dict.get(key, default)
Get(d, key, default) == IF key \in DOMAIN d THEN d[key] ELSE default

\* dict.pop(key, default): the mapping without the key.
Without(d, key) == [k \in DOMAIN d \ {key} |-> d[k]]

\* bool(value)
Truthy(val) == val.type # "none" /\ val.items # <<>>

\* A TOML document.
Doc(tables, entries) == [malformed |-> FALSE, tables |-> tables, entries |-> entries]

EmptyDoc == Doc({}, <<>>)

Malformed == [malformed |-> TRUE, tables |-> {}, entries |-> <<>>]

\* table.add(key, value), the table created when the document lacks it.
AddEntry(doc, table, key, val) ==
    Doc(doc.tables \cup {table}, SetItem(doc.entries, <<table, key>>, val))

\* `key in table`: a sub-table or a value of that name.
HasKey(doc, table, key) ==
    \/ (table \o "." \o key) \in doc.tables
    \/ <<table, key>> \in DOMAIN doc.entries

_is_dynamic_version(metadata) ==
    LET version == Get(metadata, "version", Value("none", <<>>))
    IN  version.type = "none" \/ IsFileRef(version)

\* dep.strip().lower().startswith("setuptools")
IsSetuptools(dep) == dep.items # <<>> /\ dep.items[1] = "setuptools"

\* _populate_project_table: the [project] table added to the document.
_populate_project_table(doc, metadata) ==
    LET name == Get(metadata, "name", Str(<<>>))
        version == Get(metadata, "version", Value("none", <<>>))
        install_requires == Get(metadata, "install_requires", Value("list", <<>>))
        deps == SelectSeq(install_requires.items, LAMBDA dep : ~IsSetuptools(dep))
        d0 == Doc(doc.tables \cup {"project"}, doc.entries)
        d1 == IF Truthy(name) THEN AddEntry(d0, "project", "name", name) ELSE d0
        d2 == IF _is_dynamic_version(metadata)
              THEN AddEntry(d1, "project", "dynamic", Value("list", <<Str(<<"version">>)>>))
              ELSE IF Truthy(version) /\ version.type = "str"
              THEN AddEntry(d1, "project", "version", version)
              ELSE d1
    IN  IF Truthy(install_requires) /\ deps # <<>>
        THEN AddEntry(d2, "project", "dependencies", Value("list", deps))
        ELSE d2

\* name.split(".")[0] if "." in name else name.replace("-", "_")
TopLevel(name) ==
    IF \E i \in DOMAIN name : name[i] = "."
    THEN SubSeq(name, 1, (CHOOSE i \in DOMAIN name :
                            name[i] = "." /\ \A j \in 1..(i - 1) : name[j] # ".") - 1)
    ELSE [i \in DOMAIN name |-> IF name[i] = "-" THEN "_" ELSE name[i]]

\* A wheel configuration that joins the directory with the whole name.
_ensure_hatch_wheel_config_FullName(doc, metadata, where) ==
    IF "tool.hatch.build.targets.wheel" \in doc.tables THEN doc
    ELSE AddEntry(doc, "tool.hatch.build.targets.wheel", "packages",
            Value("list", <<Str(where \o <<"/">>
                    \o Get(metadata, "name", Str(<<"unknown">>)).items)>>))

\* _ensure_hatch_wheel_config
_ensure_hatch_wheel_config(doc, metadata, where) ==
    IF "tool.hatch.build.targets.wheel" \in doc.tables THEN doc
    ELSE AddEntry(doc, "tool.hatch.build.targets.wheel", "packages",
            Value("list", <<Str(where \o <<"/">>
                    \o TopLevel(Get(metadata, "name", Str(<<"unknown">>)).items))>>))

\* generate_pyproject_toml: the document dumped, or raised when the existing
\* text does not parse or hatch.add("version", ...) finds the key there.  existing_pyproject is the file it was read from,
\* Absent for None.
generate_pyproject_toml(metadata, existing_pyproject, tool_configs) ==
    IF existing_pyproject.exists /\ existing_pyproject.text.malformed
    THEN [raised |-> TRUE, doc |-> EmptyDoc]
    ELSE
    LET d0 == IF existing_pyproject.exists THEN existing_pyproject.text ELSE EmptyDoc
        requires == <<Str(<<"hatchling">>)>>
                    \o (IF _is_dynamic_version(metadata) THEN <<Str(<<"hatch-vcs">>)>> ELSE <<>>)
        d1 == IF "build-system" \in d0.tables THEN d0
              ELSE AddEntry(AddEntry(d0, "build-system", "requires", Value("list", requires)),
                            "build-system", "build-backend", Str(<<"hatchling.build">>))
        d2 == IF "project" \in d1.tables THEN d1 ELSE _populate_project_table(d1, metadata)
        packages_val == Get(metadata, "packages", Str(<<>>))
        where == IF packages_val.items = <<>> THEN <<>> ELSE Tail(packages_val.items)
        d3 == IF /\ packages_val.type = "str"
                 /\ packages_val.items # <<>>
                 /\ packages_val.items[1] = "find_packages:"
                 /\ where # <<>> /\ where # <<".">>
              THEN _ensure_hatch_wheel_config(d2, metadata, where)
              ELSE d2
        d4 == IF _is_dynamic_version(metadata)
              THEN AddEntry(d3, "tool.hatch.version", "source", Str(<<"vcs">>))
              ELSE d3
        missing == {t \in tool_configs : ("tool." \o t) \notin d4.tables}
    IN  IF _is_dynamic_version(metadata) /\ HasKey(d3, "tool.hatch", "version")
        THEN [raised |-> TRUE, doc |-> EmptyDoc]
        ELSE [raised |-> FALSE,
              doc |-> Doc(d4.tables \cup {"tool." \o t : t \in missing}, d4.entries)]

\* cleanup_old_files
cleanup_old_files(tree_, dry) ==
    LET names == <<"setup.py", "setup.cfg", "MANIFEST.in">>
        found == SelectSeq(names, LAMBDA n : tree_[n].exists)
    IN  [fs |-> IF dry THEN tree_
                ELSE [path \in DOMAIN tree_ |->
                        IF path \in Range(found) THEN Absent ELSE tree_[path]],
         deleted |-> found]

NoSourceWarning == Str(<<"No setup.py or setup.cfg found to migrate">>)

SkipWarning == Str(<<"pyproject.toml already has [project] section, skipping migration">>)

\* migrate_packaging: the tree it leaves and what it returns, or raised.
migrate_packaging(tree_, dry) ==
    LET parsed == IF tree_["setup.py"].exists THEN parse_setup_py(tree_["setup.py"].text)
                  ELSE [result |-> <<>>, raised |-> FALSE]
        setup_py_data_ == Without(parsed.result, "_warnings")
        warnings0 == Get(parsed.result, "_warnings", Value("list", <<>>)).items
        setup_cfg_data_ == IF tree_["setup.cfg"].exists
                           THEN parse_setup_cfg(tree_["setup.cfg"].text) ELSE <<>>
        metadata == merge_metadata(setup_py_data_, setup_cfg_data_)
        tool_configs == IF tree_["setup.cfg"].exists
                        THEN convert_tool_configs(tree_["setup.cfg"].text) ELSE {}
        pyproject == tree_["pyproject.toml"]
        generated == generate_pyproject_toml(metadata, pyproject, tool_configs)
        written == IF dry THEN tree_
                   ELSE [tree_ EXCEPT !["pyproject.toml"] = File(generated.doc)]
        cleaned == cleanup_old_files(written, dry)
        returns(t, created_, deleted_, warnings_) ==
            [fs |-> t, created |-> created_, deleted |-> deleted_,
             warnings |-> warnings_, raised |-> FALSE]
    IN  IF parsed.raised
        THEN [fs |-> tree_, created |-> <<>>, deleted |-> <<>>, warnings |-> <<>>,
              raised |-> TRUE]
        ELSE IF DOMAIN setup_py_data_ = {} /\ DOMAIN setup_cfg_data_ = {}
        THEN returns(tree_, <<>>, <<>>, Append(warnings0, NoSourceWarning))
        ELSE IF /\ pyproject.exists
                /\ ~pyproject.text.malformed
                /\ "project" \in pyproject.text.tables
        THEN returns(tree_, <<>>, <<>>, Append(warnings0, SkipWarning))
        ELSE IF generated.raised
        THEN [fs |-> tree_, created |-> <<>>, deleted |-> <<>>, warnings |-> warnings0,
              raised |-> TRUE]
        ELSE returns(cleaned.fs, <<"pyproject.toml">>, cleaned.deleted, warnings0)

(***************************************************************************)
(* cli.py: main() runs the phases one after the other, each on the tree    *)
(* the one before left.  A behaviour follows one phase: the tree holds the *)
(* files that phase reads, each text in the form that phase parses it to.  *)
(***************************************************************************)
\* The texts of the templates and XML files.
CliTexts == {<<>>, <<"a">>, <<"b">>, <<"a", "b">>, <<"b", "a", "a">>,
             Quoted(<<"a">>), Element(<<"a">>)}

CliPairs == {[old |-> <<"a">>, new |-> <<"b">>],
             [old |-> <<"b">>, new |-> <<"c">>],
             [old |-> <<"a", "b">>, new |-> <<"c", "a">>]}

CliPairLists == SeqsUpTo(CliPairs, 2)

CliViews == {<<>>, <<[old |-> <<"a">>, new |-> <<"c">>]>>}

\* The trees that hold some of the files named.
TreesOf(paths, texts) == [Range(paths) -> {Absent} \cup {File(t) : t \in texts}]

\* The source files of the Python phase: a file holds an import the
\* configuration maps ("old"), or none ("plain"); the codemod subprocess
\* leaves the first as "new".
PythonTrees == [{".libcst.codemod.yaml", "m.py"} ->
                    {Absent, File(<<"default">>), File(<<"old">>), File(<<"plain">>)}]

Codemod(tree_) ==
    [path \in DOMAIN tree_ |->
        IF path = "m.py" /\ tree_[path] = File(<<"old">>) THEN File(<<"new">>)
        ELSE tree_[path]]

\* The setup() calls of the packaging phase: each keyword given or not.
NameNodes == {Constant(Str(<<"x", ".", "y", ".", "z">>)), Constant(Str(<<"my", "-", "pkg">>))}

VersionNodes == {Constant(Str(<<"1.0">>)), Constant(Str(<<>>)),
                 Constant(Value("float", <<"1.0">>)), Name("v"),
                 Call("get_version", <<>>, <<>>),
                 Call("open.read", <<Constant(Str(<<"version", ".txt">>))>>, <<>>)}

PackagesNodes == {Call("find_packages", <<Constant(Str(<<"src">>))>>, <<>>),
                  Call("find_packages", <<>>, <<>>)}

Optional(arg, nodes) == {<<>>} \cup {<<Keyword(arg, n)>> : n \in nodes}

\* A package that declares namespace_packages may also require setuptools.
NamespaceKeywords ==
    LET ns == Keyword("namespace_packages",
                      List(<<Constant(Str(<<"x">>)), Constant(Str(<<"x", ".", "y">>))>>))
        req == Keyword("install_requires",
                       List(<<Constant(Str(<<"setuptools">>)), Constant(Str(<<"a">>))>>))
    IN  {<<>>, <<ns>>, <<ns, req>>}

SetupCalls ==
    {n \o v \o ns \o pk :
        n \in Optional("name", NameNodes),
        v \in Optional("version", VersionNodes),
        ns \in NamespaceKeywords,
        pk \in Optional("packages", PackagesNodes)}

\* The module assigns v before the call.
SetupPys ==
    {SetupPy(FALSE, FALSE, <<>>, <<>>), SetupPy(TRUE, FALSE, <<>>, <<>>)}
    \cup {SetupPy(TRUE, TRUE, <<[target |-> "v", value |-> Constant(Str(<<"2.0">>))]>>, k) :
            k \in SetupCalls}

SetupCfgs ==
    {SetupCfg(<<>>, TRUE),
     SetupCfg(<<[key |-> "name", val |-> Str(<<"cfg">>)]>>, TRUE),
     SetupCfg(<<[key |-> "version", val |-> Str(<<"3.0">>)],
                [key |-> "name", val |-> Str(<<>>)]>>, FALSE)}

Pyprojects ==
    {EmptyDoc, Malformed,
     AddEntry(EmptyDoc, "project", "name", Str(<<"old">>)),
     AddEntry(AddEntry(EmptyDoc, "build-system", "requires", Value("list", <<Str(<<"flit">>)>>)),
              "tool.ruff", "line-length", Str(<<"88">>))}

PackagingTrees ==
    {[path \in {"setup.py", "setup.cfg", "MANIFEST.in", "pyproject.toml"} |->
        CASE path = "setup.py" -> py
          [] path = "setup.cfg" -> cfg
          [] path = "MANIFEST.in" -> manifest
          [] path = "pyproject.toml" -> pyproject] :
        py \in {Absent} \cup {File(t) : t \in SetupPys},
        cfg \in {Absent} \cup {File(t) : t \in SetupCfgs},
        manifest \in {Absent, File(<<>>)},
        pyproject \in {Absent} \cup {File(t) : t \in Pyprojects}}

\* The trees of the namespace phase: up to three __init__.py files.
NamespaceTrees ==
    {Tree(a, ab, build, py, cfg) :
        a \in {Absent, File(<<"decl">>), File(<<"decl", "code">>)},
        ab \in {Absent, File(<<"decl">>), File(<<"decl", "code">>)},
        build \in {Absent, File(<<"decl">>)},
        py \in {Absent} \cup {File(t) : t \in SetupPyTexts},
        cfg \in {Absent} \cup {File(t) : t \in SetupCfgTexts}}

NoConfig == [entries |-> <<>>, views |-> <<>>, replacements |-> <<>>,
             data_attributes |-> <<>>, css_classes |-> <<>>]

CliInit ==
    /\ cliRestIdle
    /\ cliDryRun \in BOOLEAN
    /\ \/ /\ cliPhase = "python"
          /\ cliConfig = NoConfig
          /\ libcst_installed \in BOOLEAN
          /\ cliFs \in PythonTrees
       \/ /\ cliPhase = "zcml"
          /\ cliConfig \in {[NoConfig EXCEPT !.entries = e] : e \in CliPairLists}
          /\ libcst_installed = TRUE
          /\ cliFs \in TreesOf(ZcmlPaths, CliTexts)
       \/ /\ cliPhase = "genericsetup"
          /\ cliConfig \in {[NoConfig EXCEPT !.entries = e, !.views = v] :
                                e \in SeqsUpTo(CliPairs, 1), v \in CliViews}
          /\ libcst_installed = TRUE
          /\ cliFs \in TreesOf(XmlPaths, {<<"a">>, Quoted(<<"a">>), Element(<<"a">>)})
       \/ /\ cliPhase = "pt"
          /\ cliConfig \in {[NoConfig EXCEPT !.replacements = e] : e \in CliPairLists}
          /\ libcst_installed = TRUE
          /\ cliFs \in TreesOf(PtPaths \o HtmlPaths, {<<"a">>, <<"b">>, <<"a", "b">>})
       \/ /\ cliPhase = "bootstrap"
          /\ cliConfig \in {[NoConfig EXCEPT !.data_attributes = d, !.css_classes = c] :
                                d \in SeqsUpTo(CliPairs, 1), c \in SeqsUpTo(CliPairs, 1)}
          /\ libcst_installed = TRUE
          /\ cliFs \in TreesOf(PtPaths \o HtmlPaths, {<<"a">>, <<"b">>, <<"a", "b">>})
       \/ /\ cliPhase = "namespaces"
          /\ cliConfig = NoConfig
          /\ libcst_installed = TRUE
          /\ cliFs \in NamespaceTrees
       \/ /\ cliPhase = "packaging"
          /\ cliConfig = NoConfig
          /\ libcst_installed = TRUE
          /\ cliFs \in PackagingTrees
    /\ cliBefore = cliFs
    /\ cliResult = <<>>
    /\ cliPc = "start"

\* What a phase's function returned: its lists, and whether it raised.
Returned(modified_, created_, deleted_, warnings_, raised) ==
    [modified |-> modified_, created |-> created_, deleted |-> deleted_,
     warnings |-> warnings_, raised |-> raised]

\* run_python_migration
run_python_migration ==
    /\ cliPc = "start"
    /\ cliPhase = "python"
    /\ LET codemod_yaml == ".libcst.codemod.yaml"
           initialized == IF ~cliFs[codemod_yaml].exists
                          THEN [cliFs EXCEPT ![codemod_yaml] = File(<<"default">>)]
                          ELSE cliFs
       IN  cliFs' = IF ~libcst_installed THEN cliFs
                    ELSE IF cliDryRun THEN initialized
                    ELSE Codemod(initialized)
    /\ cliResult' = Returned(<<>>, <<>>, <<>>, <<>>, FALSE)
    /\ cliPc' = "done"
    /\ UNCHANGED <<cliPhase, cliConfig, libcst_installed, cliDryRun, cliBefore>>
    /\ UNCHANGED cliRest

\* run_zcml_migration
run_zcml_migration ==
    /\ cliPc = "start"
    /\ cliPhase = "zcml"
    /\ LET returned == migrate_zcml_files(cliFs, cliConfig.entries, cliDryRun)
       IN  /\ cliFs' = returned.fs
           /\ cliResult' = Returned(returned.modified, <<>>, <<>>, <<>>, FALSE)
    /\ cliPc' = "done"
    /\ UNCHANGED <<cliPhase, cliConfig, libcst_installed, cliDryRun, cliBefore>>
    /\ UNCHANGED cliRest

\* run_genericsetup_migration
run_genericsetup_migration ==
    /\ cliPc = "start"
    /\ cliPhase = "genericsetup"
    /\ LET returned == migrate_genericsetup_files(cliFs, cliConfig.entries,
                                                  cliConfig.views, cliDryRun)
       IN  /\ cliFs' = returned.fs
           /\ cliResult' = Returned(returned.modified, <<>>, <<>>, <<>>, FALSE)
    /\ cliPc' = "done"
    /\ UNCHANGED <<cliPhase, cliConfig, libcst_installed, cliDryRun, cliBefore>>
    /\ UNCHANGED cliRest

\* run_pt_migration
run_pt_migration ==
    /\ cliPc = "start"
    /\ cliPhase = "pt"
    /\ LET returned == migrate_pt_files(cliFs, cliConfig.replacements, cliDryRun)
       IN  /\ cliFs' = returned.fs
           /\ cliResult' = Returned(returned.modified, <<>>, <<>>, <<>>, FALSE)
    /\ cliPc' = "done"
    /\ UNCHANGED <<cliPhase, cliConfig, libcst_installed, cliDryRun, cliBefore>>
    /\ UNCHANGED cliRest

\* run_bootstrap_migration
run_bootstrap_migration ==
    /\ cliPc = "start"
    /\ cliPhase = "bootstrap"
    /\ LET returned == migrate_bootstrap_files(cliFs, cliConfig.data_attributes,
                                               cliConfig.css_classes, cliDryRun)
       IN  /\ cliFs' = returned.fs
           /\ cliResult' = Returned(returned.modified, <<>>, <<>>, <<>>, FALSE)
    /\ cliPc' = "done"
    /\ UNCHANGED <<cliPhase, cliConfig, libcst_installed, cliDryRun, cliBefore>>
    /\ UNCHANGED cliRest

\* run_namespace_migration
run_namespace_migration ==
    /\ cliPc = "start"
    /\ cliPhase = "namespaces"
    /\ LET returned == migrate_namespaces(cliFs, cliDryRun)
       IN  /\ cliFs' = returned.fs
           /\ cliResult' = Returned(returned.modified, <<>>, returned.deleted, <<>>, FALSE)
    /\ cliPc' = "done"
    /\ UNCHANGED <<cliPhase, cliConfig, libcst_installed, cliDryRun, cliBefore>>
    /\ UNCHANGED cliRest

\* run_packaging_migration
run_packaging_migration ==
    /\ cliPc = "start"
    /\ cliPhase = "packaging"
    /\ LET returned == migrate_packaging(cliFs, cliDryRun)
       IN  /\ cliFs' = returned.fs
           /\ cliResult' = Returned(<<>>, returned.created, returned.deleted,
                                    returned.warnings, returned.raised)
    /\ cliPc' = "done"
    /\ UNCHANGED <<cliPhase, cliConfig, libcst_installed, cliDryRun, cliBefore>>
    /\ UNCHANGED cliRest

CliNext ==
    \/ run_python_migration \/ run_zcml_migration \/ run_genericsetup_migration
    \/ run_pt_migration \/ run_bootstrap_migration \/ run_namespace_migration
    \/ run_packaging_migration

SpecCli == CliInit /\ [][CliNext]_vars

(***************************************************************************)
(* migrate_packaging, step by step: every write_text and unlink is a step  *)
(* of its own.                                                             *)
(***************************************************************************)
PkInit ==
    /\ pkRestIdle
    /\ pkFs \in PackagingTrees
    /\ pkBefore = pkFs
    /\ pkDryRun \in BOOLEAN
    /\ pkWarnings = <<>>
    /\ pkCreated = <<>>
    /\ pkDeleted = <<>>
    /\ pkContent = NoneVal
    /\ pkName = 1
    /\ pkPc = "parse"

\* parse_setup_py(setup_py) of step 1, its "_warnings" still inside.
PkParsed ==
    IF pkFs["setup.py"].exists THEN parse_setup_py(pkFs["setup.py"].text)
    ELSE [result |-> <<>>, raised |-> FALSE]

PkSetupPyData == Without(PkParsed.result, "_warnings")

PkSetupCfgData ==
    IF pkFs["setup.cfg"].exists THEN parse_setup_cfg(pkFs["setup.cfg"].text) ELSE <<>>

\* Steps 1 and 2, and the return when there is nothing to migrate.
ParseSources ==
    /\ pkPc = "parse"
    /\ IF PkParsed.raised
       THEN /\ pkPc' = "raised"
            /\ UNCHANGED pkWarnings
       ELSE LET found == Get(PkParsed.result, "_warnings", Value("list", <<>>)).items
            IN  IF DOMAIN PkSetupPyData = {} /\ DOMAIN PkSetupCfgData = {}
                THEN /\ pkWarnings' = Append(found, NoSourceWarning)
                     /\ pkPc' = "no_source"
                ELSE /\ pkWarnings' = found
                     /\ pkPc' = "existing"
    /\ UNCHANGED <<pkFs, pkBefore, pkDryRun, pkCreated, pkDeleted, pkContent, pkName>>
    /\ UNCHANGED pkRest

\* Step 5: an existing pyproject.toml with a [project] table ends the call.
ReadExisting ==
    /\ pkPc = "existing"
    /\ IF /\ pkFs["pyproject.toml"].exists
          /\ ~pkFs["pyproject.toml"].text.malformed
          /\ "project" \in pkFs["pyproject.toml"].text.tables
       THEN /\ pkWarnings' = Append(pkWarnings, SkipWarning)
            /\ pkPc' = "skipped"
       ELSE /\ pkPc' = "generate"
            /\ UNCHANGED pkWarnings
    /\ UNCHANGED <<pkFs, pkBefore, pkDryRun, pkCreated, pkDeleted, pkContent, pkName>>
    /\ UNCHANGED pkRest

\* Steps 3, 4 and 6: content = generate_pyproject_toml(...), or it raises.
GenerateContent ==
    /\ pkPc = "generate"
    /\ LET generated ==
               generate_pyproject_toml(
                   merge_metadata(PkSetupPyData, PkSetupCfgData),
                   pkFs["pyproject.toml"],
                   IF pkFs["setup.cfg"].exists
                   THEN convert_tool_configs(pkFs["setup.cfg"].text) ELSE {})
       IN  IF generated.raised
           THEN /\ pkPc' = "raised"
                /\ UNCHANGED pkContent
           ELSE /\ pkContent' = generated.doc
                /\ pkPc' = "write"
    /\ UNCHANGED <<pkFs, pkBefore, pkDryRun, pkWarnings, pkCreated, pkDeleted, pkName>>
    /\ UNCHANGED pkRest

\* The clean-up started with pyproject.toml not written.
WritePyproject_Skipped ==
    /\ pkPc = "write"
    /\ pkCreated' = Append(pkCreated, "pyproject.toml")
    /\ pkPc' = "cleanup"
    /\ UNCHANGED <<pkFs, pkBefore, pkDryRun, pkWarnings, pkDeleted, pkContent, pkName>>
    /\ UNCHANGED pkRest

\* `if not dry_run: pyproject_path.write_text(content)`, created.append.
WritePyproject ==
    /\ pkPc = "write"
    /\ pkFs' = IF pkDryRun THEN pkFs
               ELSE [pkFs EXCEPT !["pyproject.toml"] = File(pkContent)]
    /\ pkCreated' = Append(pkCreated, "pyproject.toml")
    /\ pkPc' = "cleanup"
    /\ UNCHANGED <<pkBefore, pkDryRun, pkWarnings, pkDeleted, pkContent, pkName>>
    /\ UNCHANGED pkRest

OldFiles == <<"setup.py", "setup.cfg", "MANIFEST.in">>

\* One round of the loop of cleanup_old_files.
UnlinkOldFile ==
    /\ pkPc = "cleanup"
    /\ pkName <= Len(OldFiles)
    /\ IF pkFs[OldFiles[pkName]].exists
       THEN /\ pkFs' = IF pkDryRun THEN pkFs
                       ELSE [pkFs EXCEPT ![OldFiles[pkName]] = Absent]
            /\ pkDeleted' = Append(pkDeleted, OldFiles[pkName])
       ELSE UNCHANGED <<pkFs, pkDeleted>>
    /\ pkName' = pkName + 1
    /\ UNCHANGED <<pkBefore, pkDryRun, pkWarnings, pkCreated, pkContent, pkPc>>
    /\ UNCHANGED pkRest

\* The final return.
ReturnPackaging ==
    /\ pkPc = "cleanup"
    /\ pkName > Len(OldFiles)
    /\ pkPc' = "done"
    /\ UNCHANGED <<pkFs, pkBefore, pkDryRun, pkWarnings, pkCreated, pkDeleted, pkContent,
                   pkName>>
    /\ UNCHANGED pkRest

PkNext ==
    \/ ParseSources
    \/ ReadExisting
    \/ GenerateContent
    \/ WritePyproject
    \/ UnlinkOldFile
    \/ ReturnPackaging

SpecPk == PkInit /\ [][PkNext]_vars

(***************************************************************************)
(* The directory walks, file by file.  A file is bytes: read_text          *)
(* (encoding="utf-8") raises UnicodeDecodeError on a file that holds a     *)
(* byte sequence that is not UTF-8.                                        *)
(***************************************************************************)
InvalidByte == "0xff"

Undecodable == File(<<InvalidByte>>)

\* filepath.read_text(encoding="utf-8") returns.
Decodes(file) == \A i \in DOMAIN file.text : file.text[i] # InvalidByte

WalkPhases == {"zcml", "genericsetup", "pt", "bootstrap", "namespaces"}

\* The one entry of every section of the configuration: a -> b.
WalkEntries == <<[old |-> <<"a">>, new |-> <<"b">>]>>

\* The transformer call of a phase.
WalkCall(phase) ==
    CASE phase = "zcml" -> ZcmlCall(_build_replacements(WalkEntries))
      [] phase = "genericsetup" -> GenericSetupCall(_build_replacements(WalkEntries), <<>>)
      [] phase = "pt" -> PtCall(WalkEntries)
      [] phase = "bootstrap" -> BootstrapCall(WalkEntries, <<>>)

\* The files a phase visits, in the order of its loops.
WalkPaths(phase, tree_) ==
    CASE phase = "zcml" -> Rglob(tree_, ZcmlPaths)
      [] phase = "genericsetup" -> SelectSeq(Rglob(tree_, XmlPaths), GenericSetupFile)
      [] phase = "pt" -> Rglob(tree_, PtPaths)
      [] phase = "bootstrap" -> Rglob(tree_, PtPaths) \o Rglob(tree_, HtmlPaths)
      [] phase = "namespaces" ->
            SelectSeq(Rglob(tree_, InitPaths),
                      LAMBDA path : \A k \in DOMAIN Parts(path) :
                                        Parts(path)[k] \notin {"build", "dist"})

WalkTrees(phase) ==
    CASE phase = "zcml" -> TreesOf(ZcmlPaths, {<<"a">>, <<"b">>, <<InvalidByte>>})
      [] phase = "genericsetup" ->
            TreesOf(XmlPaths, {<<"a">>, <<InvalidByte>>})
      [] phase = "pt" -> TreesOf(PtPaths, {<<"a">>, <<"b">>, <<InvalidByte>>})
      [] phase = "bootstrap" ->
            TreesOf(PtPaths \o HtmlPaths, {<<"a">>, <<InvalidByte>>})
      [] phase = "namespaces" ->
            {Tree(a, ab, build, py, Absent) :
                a \in {Absent, File(<<"decl">>), File(<<"decl", "code">>), Undecodable},
                ab \in {Absent, File(<<"decl">>), File(<<"code">>), Undecodable},
                build \in {Absent, Undecodable},
                py \in {Absent, File(<<Kw("namespace_packages", "list")>>)}}

WkInit ==
    /\ wkRestIdle
    /\ wkPhase \in WalkPhases
    /\ wkDryRun \in BOOLEAN
    /\ wkFs \in WalkTrees(wkPhase)
    /\ wkBefore = wkFs
    /\ wkQueue = WalkPaths(wkPhase, wkFs)
    /\ wkInitFiles = <<>>
    /\ wkModified = <<>>
    /\ wkDeleted = <<>>
    /\ wkPc = IF wkPhase = "namespaces" THEN "find" ELSE "walk"

\* One round of the loop of migrate_zcml_files, migrate_genericsetup_files
\* or _migrate_files on a file read_text returns for.
MigrateNextFile ==
    /\ wkPc = "walk"
    /\ wkPhase # "namespaces"
    /\ wkQueue # <<>>
    /\ Decodes(wkFs[Head(wkQueue)])
    /\ LET filepath == Head(wkQueue)
           new_content == Transform(WalkCall(wkPhase), wkFs[filepath].text)
       IN  IF new_content # wkFs[filepath].text
           THEN /\ wkModified' = Append(wkModified, filepath)
                /\ wkFs' = IF wkDryRun THEN wkFs
                           ELSE [wkFs EXCEPT ![filepath] = File(new_content)]
           ELSE UNCHANGED <<wkModified, wkFs>>
    /\ wkQueue' = Tail(wkQueue)
    /\ UNCHANGED <<wkPhase, wkDryRun, wkBefore, wkInitFiles, wkDeleted, wkPc>>
    /\ UNCHANGED wkRest

\* read_text raises in the loop: nothing catches it, the call ends.
ReadRaises ==
    /\ wkPc = "walk"
    /\ wkPhase # "namespaces"
    /\ wkQueue # <<>>
    /\ ~Decodes(wkFs[Head(wkQueue)])
    /\ wkPc' = "raised"
    /\ UNCHANGED <<wkPhase, wkDryRun, wkFs, wkBefore, wkQueue, wkInitFiles, wkModified,
                   wkDeleted>>
    /\ UNCHANGED wkRest

\* One round of the loop of find_namespace_init_files: `continue` on
\* OSError and UnicodeDecodeError.
FindInitFile ==
    /\ wkPc = "find"
    /\ wkQueue # <<>>
    /\ LET init_file == Head(wkQueue)
           content_ == wkFs[init_file].text
       IN  wkInitFiles' =
               IF Decodes(wkFs[init_file]) /\ has_namespace_declaration(content_)
               THEN Append(wkInitFiles,
                           [path |-> init_file,
                            delete_entirely |-> is_only_namespace_init(content_)])
               ELSE wkInitFiles
    /\ wkQueue' = Tail(wkQueue)
    /\ UNCHANGED <<wkPhase, wkDryRun, wkFs, wkBefore, wkModified, wkDeleted, wkPc>>
    /\ UNCHANGED wkRest

\* find_namespace_init_files returns.
ReturnInitFiles ==
    /\ wkPc = "find"
    /\ wkQueue = <<>>
    /\ wkPc' = "walk"
    /\ UNCHANGED <<wkPhase, wkDryRun, wkFs, wkBefore, wkQueue, wkInitFiles, wkModified,
                   wkDeleted>>
    /\ UNCHANGED wkRest

\* One round of the loop of migrate_namespaces over init_files.
MigrateNextInitFile ==
    /\ wkPc = "walk"
    /\ wkPhase = "namespaces"
    /\ wkInitFiles # <<>>
    /\ LET migrated == MigrateInitFile(
                           [fs |-> wkFs, deleted |-> wkDeleted, modified |-> wkModified],
                           Head(wkInitFiles), wkDryRun)
       IN  /\ wkFs' = migrated.fs
           /\ wkDeleted' = migrated.deleted
           /\ wkModified' = migrated.modified
    /\ wkInitFiles' = Tail(wkInitFiles)
    /\ UNCHANGED <<wkPhase, wkDryRun, wkBefore, wkQueue, wkPc>>
    /\ UNCHANGED wkRest

\* Steps 2 and 3 of migrate_namespaces, and its return.
CleanSetupFiles ==
    /\ wkPc = "walk"
    /\ wkPhase = "namespaces"
    /\ wkInitFiles = <<>>
    /\ LET py == clean_setup_py_namespaces(wkFs, wkDryRun)
           cfg == clean_setup_cfg_namespaces(py.fs, wkDryRun)
       IN  /\ wkFs' = cfg.fs
           /\ wkModified' = AppendIf(cfg.changed,
                                     AppendIf(py.changed, wkModified, "setup.py"),
                                     "setup.cfg")
    /\ wkPc' = "done"
    /\ UNCHANGED <<wkPhase, wkDryRun, wkBefore, wkQueue, wkInitFiles, wkDeleted>>
    /\ UNCHANGED wkRest

\* The loop of a text phase is through: `return modified`.
ReturnModified ==
    /\ wkPc = "walk"
    /\ wkPhase # "namespaces"
    /\ wkQueue = <<>>
    /\ wkPc' = "done"
    /\ UNCHANGED <<wkPhase, wkDryRun, wkFs, wkBefore, wkQueue, wkInitFiles, wkModified,
                   wkDeleted>>
    /\ UNCHANGED wkRest

WkNext ==
    \/ MigrateNextFile
    \/ ReadRaises
    \/ FindInitFile
    \/ ReturnInitFiles
    \/ MigrateNextInitFile
    \/ CleanSetupFiles
    \/ ReturnModified

SpecWalk == WkInit /\ [][WkNext]_vars

(***************************************************************************)
(* convert_tool_configs.  A value of setup.cfg is the sequence of its      *)
(* tokens, "," and "\n" the separators; `tools` is a nested dict: the set  *)
(* of its tables and its entries, each by its path of keys.                *)
(***************************************************************************)
NoTools == [tables |-> {}, entries |-> <<>>]

\* The segments of a value between separators, the empty ones left out.
RECURSIVE SplitOn(_, _, _)
SplitOn(raw, sep, segment) ==
    IF raw = <<>> THEN (IF segment = <<>> THEN <<>> ELSE <<Str(segment)>>)
    ELSE IF Head(raw) = sep
    THEN (IF segment = <<>> THEN <<>> ELSE <<Str(segment)>>) \o SplitOn(Tail(raw), sep, <<>>)
    ELSE SplitOn(Tail(raw), sep, Append(segment, Head(raw)))

\* [s.strip() for s in val.split(",") if s.strip()]
CommaList(raw) == Value("list", SplitOn(raw, ",", <<>>))

\* _parse_cfg_list: the non-empty lines.
_parse_cfg_list(raw) == Value("list", SplitOn(raw, "\n", <<>>))

\* val.lower() in ("true", "1", "yes")
ToBool(raw) == Value("bool", <<raw \in {<<"true">>, <<"1">>, <<"yes">>}>>)

\* int(val), float(val)
ToNumber(type, raw) == Value(type, raw)

\* What one round of a converter's loop stores: the dict, the key and the
\* value; nothing where no branch of the loop takes the key.
Store(dict, key, val) == [dict |-> dict, key |-> key, val |-> val]

NoStore == Store(NoneVal, NoneVal, NoneVal)

Flake8Item(item) ==
    CASE item.key \in {"max-line-length", "max_line_length"} ->
            Store("ruff", "line-length", ToNumber("int", item.val))
      [] item.key = "ignore" -> Store("ruff_lint", "ignore", CommaList(item.val))
      [] item.key = "select" -> Store("ruff_lint", "select", CommaList(item.val))
      [] item.key \in {"extend-ignore", "extend_ignore"} ->
            Store("ruff_lint", "extend-ignore", CommaList(item.val))
      [] item.key = "exclude" -> Store("ruff", "exclude", _parse_cfg_list(item.val))
      [] OTHER -> NoStore

IsortItem(item) ==
    CASE item.key = "known_first_party" ->
            Store("result", "known-first-party", CommaList(item.val))
      [] item.key = "known_third_party" ->
            Store("result", "known-third-party", CommaList(item.val))
      [] item.key = "force_single_line" ->
            Store("result", "force-single-line", ToBool(item.val))
      [] item.key = "from_first" -> Store("result", "from-first", ToBool(item.val))
      [] item.key = "no_sections" -> Store("result", "no-sections", ToBool(item.val))
      [] item.key = "order_by_type" -> Store("result", "order-by-type", ToBool(item.val))
      [] item.key = "lines_after_imports" ->
            Store("result", "lines-after-imports", ToNumber("int", item.val))
      [] item.key = "lines_between_types" ->
            Store("result", "lines-between-types", ToNumber("int", item.val))
      [] OTHER -> NoStore         \* `profile` and every key not in key_map

PycodestyleItem(item) ==
    CASE item.key \in {"max-line-length", "max_line_length"} ->
            Store("ruff", "line-length", ToNumber("int", item.val))
      [] item.key = "ignore" -> Store("ruff_lint", "ignore", CommaList(item.val))
      [] item.key = "exclude" -> Store("ruff", "exclude", _parse_cfg_list(item.val))
      [] OTHER -> NoStore

PydocstyleItem(item) ==
    CASE item.key = "convention" -> Store("result", "convention", Str(item.val))
      [] item.key \in {"match-dir", "match_dir"} -> Store("result", "match-dir", Str(item.val))
      [] OTHER -> NoStore

PytestItem(item) ==
    CASE item.key \in {"testpaths", "python_files", "python_classes", "python_functions",
                       "markers"} ->
            Store("result", item.key, _parse_cfg_list(item.val))
      [] OTHER -> Store("result", item.key, Str(item.val))   \* addopts: val.strip()

CoverageItem(item) ==
    CASE item.key \in {"source", "omit", "include"} ->
            Store("result", item.key, _parse_cfg_list(item.val))
      [] item.key \in {"show_missing", "branch"} -> Store("result", item.key, ToBool(item.val))
      [] item.key = "fail_under" -> Store("result", item.key, ToNumber("float", item.val))
      [] OTHER -> Store("result", item.key, Str(item.val))

\* dict(cfg.items("check-manifest"))
CheckManifestItem(item) == Store("result", item.key, Str(item.val))

ConvertItem(section, item) ==
    CASE section = "flake8" -> Flake8Item(item)
      [] section = "isort" -> IsortItem(item)
      [] section \in {"pycodestyle", "pep8"} -> PycodestyleItem(item)
      [] section = "pydocstyle" -> PydocstyleItem(item)
      [] section \in {"tool:pytest", "pytest"} -> PytestItem(item)
      [] section \in {"coverage:run", "coverage:report"} -> CoverageItem(item)
      [] section = "check-manifest" -> CheckManifestItem(item)

\* The dict a converter's loop over the section's items builds.
RECURSIVE Converted(_, _, _)
Converted(section, items, dict) ==
    IF items = <<>> THEN <<>>
    ELSE LET init == Converted(section, SubSeq(items, 1, Len(items) - 1), dict)
             stored == ConvertItem(section, items[Len(items)])
         IN  IF stored.dict # dict THEN init
             ELSE SetItem(init, stored.key, stored.val)

\* tools.setdefault(path[1], {}).setdefault(path[2], {})...
SetDefault(tools, path) ==
    [tools EXCEPT !.tables = @ \cup {SubSeq(path, 1, k) : k \in 1..Len(path)}]

\* tools[path...].update(d)
Update(tools, path, d) ==
    [tools EXCEPT !.entries =
        [q \in DOMAIN tools.entries \cup {Append(path, k) : k \in DOMAIN d} |->
            IF \E k \in DOMAIN d : q = Append(path, k)
            THEN d[q[Len(q)]] ELSE tools.entries[q]]]

\* tools[path...] = d, whatever was there before.
Assign(tools, path, d) ==
    LET Under(q) == Len(q) >= Len(path) /\ SubSeq(q, 1, Len(path)) = path
        cleared == [tables |-> {t \in tools.tables : ~Under(t)},
                    entries |-> [q \in {e \in DOMAIN tools.entries : ~Under(e)} |->
                                    tools.entries[q]]]
    IN  Update(SetDefault(cleared, path), path, d)

has_section(section) == section \in DOMAIN tcCfg

ToolSections ==
    <<"flake8", "isort", "pycodestyle", "pep8", "pydocstyle", "tool:pytest", "pytest",
      "coverage:run", "coverage:report", "check-manifest">>

\* The section after this one, in the order of the function's `if`s.
NextSection(section) ==
    LET i == CHOOSE k \in DOMAIN ToolSections : ToolSections[k] = section
    IN  IF i = Len(ToolSections) THEN "return" ELSE ToolSections[i + 1]

V88 == <<"88">>
VList == <<"a", ",", "b">>
VLines == <<"a", "\n", "b">>
VTrue == <<"true">>

SectionItems(section) ==
    LET Item(key, val) == [key |-> key, val |-> val]
    IN  CASE section = "flake8" ->
                {Item("max-line-length", V88), Item("ignore", VList), Item("foo", VList)}
          [] section = "isort" ->
                {Item("known_first_party", VList), Item("profile", <<"black">>),
                 Item("foo", V88)}
          [] section \in {"pycodestyle", "pep8"} ->
                {Item("max-line-length", V88), Item("foo", VList)}
          [] section = "pydocstyle" -> {Item("convention", <<"google">>), Item("foo", VList)}
          [] section \in {"tool:pytest", "pytest"} ->
                {Item("testpaths", VLines), Item("foo", VList)}
          [] section \in {"coverage:run", "coverage:report"} ->
                {Item("branch", VTrue), Item("foo", V88)}
          [] section = "check-manifest" -> {Item("ignore", VLines), Item("foo", V88)}
          [] section = "bdist_wheel" -> {Item("universal", <<"1">>)}

\* A section holds a key once.
OptionLists(section) ==
    {l \in NonEmptySeqsUpTo(SectionItems(section), MaxOptions) :
        \A i, j \in DOMAIN l : l[i].key = l[j].key => i = j}

SetupCfgSections ==
    UNION {{cfg \in [names -> UNION {OptionLists(n) : n \in names}] :
                \A n \in names : cfg[n] \in OptionLists(n)} :
            names \in {S \in SUBSET (Range(ToolSections) \cup {"bdist_wheel"}) :
                          Cardinality(S) <= MaxSections}}

TcInit ==
    /\ tcRestIdle
    /\ tcCfg \in SetupCfgSections
    /\ tcTools = NoTools
    /\ tcPc = "flake8"

\* `if cfg.has_section("flake8")`: flake8 -> ruff and ruff.lint
ConvertFlake8 ==
    /\ tcPc = "flake8"
    /\ tcTools' =
          IF has_section("flake8")
          THEN Update(SetDefault(Update(SetDefault(tcTools, <<"ruff">>), <<"ruff">>,
                                        Converted("flake8", tcCfg["flake8"], "ruff")),
                                 <<"ruff", "lint">>),
                      <<"ruff", "lint">>, Converted("flake8", tcCfg["flake8"], "ruff_lint"))
          ELSE tcTools
    /\ tcPc' = NextSection(tcPc)
    /\ UNCHANGED tcCfg
    /\ UNCHANGED tcRest

\* isort -> ruff.lint.isort
ConvertIsort ==
    /\ tcPc = "isort"
    /\ tcTools' =
          IF has_section("isort")
          THEN Update(SetDefault(tcTools, <<"ruff", "lint", "isort">>),
                      <<"ruff", "lint", "isort">>,
                      Converted("isort", tcCfg["isort"], "result"))
          ELSE tcTools
    /\ tcPc' = NextSection(tcPc)
    /\ UNCHANGED tcCfg
    /\ UNCHANGED tcRest

\* One round of `for section in ("pycodestyle", "pep8")`.
ConvertPycodestyle ==
    /\ tcPc \in {"pycodestyle", "pep8"}
    /\ tcTools' =
          IF has_section(tcPc)
          THEN Update(SetDefault(Update(SetDefault(tcTools, <<"ruff">>), <<"ruff">>,
                                        Converted(tcPc, tcCfg[tcPc], "ruff")),
                                 <<"ruff", "lint">>),
                      <<"ruff", "lint">>, Converted(tcPc, tcCfg[tcPc], "ruff_lint"))
          ELSE tcTools
    /\ tcPc' = NextSection(tcPc)
    /\ UNCHANGED tcCfg
    /\ UNCHANGED tcRest

\* pydocstyle -> ruff.lint.pydocstyle
ConvertPydocstyle ==
    /\ tcPc = "pydocstyle"
    /\ tcTools' =
          IF has_section("pydocstyle")
          THEN Update(SetDefault(tcTools, <<"ruff", "lint", "pydocstyle">>),
                      <<"ruff", "lint", "pydocstyle">>,
                      Converted("pydocstyle", tcCfg["pydocstyle"], "result"))
          ELSE tcTools
    /\ tcPc' = NextSection(tcPc)
    /\ UNCHANGED tcCfg
    /\ UNCHANGED tcRest

\* One round of `for section in ("tool:pytest", "pytest")`, with its break.
ConvertPytest ==
    /\ tcPc \in {"tool:pytest", "pytest"}
    /\ IF has_section(tcPc)
       THEN /\ tcTools' = Assign(tcTools, <<"pytest", "ini_options">>,
                                 Converted(tcPc, tcCfg[tcPc], "result"))
            /\ tcPc' = "coverage:run"
       ELSE /\ tcPc' = NextSection(tcPc)
            /\ UNCHANGED tcTools
    /\ UNCHANGED tcCfg
    /\ UNCHANGED tcRest

\* coverage:run -> coverage.run, coverage:report -> coverage.report
ConvertCoverage ==
    /\ tcPc \in {"coverage:run", "coverage:report"}
    /\ tcTools' =
          IF has_section(tcPc)
          THEN Assign(SetDefault(tcTools, <<"coverage">>),
                      <<"coverage", IF tcPc = "coverage:run" THEN "run" ELSE "report">>,
                      Converted(tcPc, tcCfg[tcPc], "result"))
          ELSE tcTools
    /\ tcPc' = NextSection(tcPc)
    /\ UNCHANGED tcCfg
    /\ UNCHANGED tcRest

\* check-manifest -> check-manifest
ConvertCheckManifest ==
    /\ tcPc = "check-manifest"
    /\ tcTools' =
          IF has_section("check-manifest")
          THEN Assign(tcTools, <<"check-manifest">>,
                      Converted("check-manifest", tcCfg["check-manifest"], "result"))
          ELSE tcTools
    /\ tcPc' = NextSection(tcPc)
    /\ UNCHANGED tcCfg
    /\ UNCHANGED tcRest

\* `return tools`
ReturnTools ==
    /\ tcPc = "return"
    /\ tcPc' = "done"
    /\ UNCHANGED <<tcCfg, tcTools>>
    /\ UNCHANGED tcRest

TcNext ==
    \/ ConvertFlake8
    \/ ConvertIsort
    \/ ConvertPycodestyle
    \/ ConvertPydocstyle
    \/ ConvertPytest
    \/ ConvertCoverage
    \/ ConvertCheckManifest
    \/ ReturnTools

SpecTools == TcInit /\ [][TcNext]_vars

(***************************************************************************)
(* generate_pyproject_toml, statement by statement.  A table of the        *)
(* document is named by its dotted path; tomlkit's add() raises            *)
(* KeyAlreadyPresent where the container holds the key already.            *)
(***************************************************************************)
\* The keys generate_pyproject_toml puts tables under.
SubTableKeys == {"optional-dependencies", "urls", "scripts", "gui-scripts", "entry-points"}

\* `not project`: no table, or a table with nothing in it.
IsFalsyTable(doc, table) ==
    \/ table \notin doc.tables
    \/ /\ \A e \in DOMAIN doc.entries : e[1] # table
       /\ \A k \in SubTableKeys : (table \o "." \o k) \notin doc.tables

\* A table filled from [key, val] pairs and added under its parent.
RECURSIVE AddEntries(_, _, _)
AddEntries(doc, table, pairs) ==
    IF pairs = <<>> THEN Doc(doc.tables \cup {table}, doc.entries)
    ELSE AddEntries(AddEntry(doc, table, Head(pairs).key, Head(pairs).val), table, Tail(pairs))

\* The [project] sub-table an entry point group goes to.
EntryPointTable(group) ==
    CASE group = "console_scripts" -> [table |-> "project", key |-> "scripts"]
      [] group = "gui_scripts" -> [table |-> "project", key |-> "gui-scripts"]
      [] OTHER -> [table |-> "project.entry-points", key |-> group]

\* The loop of _add_entry_points over the groups: the document, or raised.
RECURSIVE AddGroups(_, _)
AddGroups(doc, groups) ==
    IF groups = <<>> THEN [raised |-> FALSE, doc |-> doc]
    ELSE LET at == EntryPointTable(Head(groups).key)
             d0 == IF at.table = "project.entry-points"
                   THEN Doc(doc.tables \cup {"project", "project.entry-points"}, doc.entries)
                   ELSE doc
         IN  IF HasKey(d0, at.table, at.key) THEN [raised |-> TRUE, doc |-> d0]
             ELSE AddGroups(AddEntries(d0, at.table \o "." \o at.key, Head(groups).val),
                            Tail(groups))

Pair(key, val) == [key |-> key, val |-> val]

\* The metadata generate_pyproject_toml is called with.
GenMetadatas ==
    {[k \in {"name"} \cup version \cup extras \cup url \cup entry_points \cup packages |->
        CASE k = "name" -> Str(<<"my", ".", "pkg">>)
          [] k = "version" -> Str(<<"1.0">>)
          [] k = "extras_require" ->
                Value("dict", <<Pair("test", Value("list", <<Str(<<"pytest">>)>>))>>)
          [] k = "url" -> Str(<<"https://example.org">>)
          [] k = "entry_points" ->
                Value("dict", <<Pair(g, <<Pair("cmd", Str(<<"my.pkg:main">>))>>)>>)
          [] k = "packages" -> Str(<<"find_packages:", "src">>)] :
     version \in {{}, {"version"}}, extras \in {{}, {"extras_require"}},
     url \in {{}, {"url"}}, entry_points \in {{}, {"entry_points"}},
     packages \in {{}, {"packages"}}, g \in {"console_scripts", "plugin"}}

OldName == AddEntry(EmptyDoc, "project", "name", Str(<<"old">>))

\* The documents it is asked to merge into.
ExistingDocs ==
    Pyprojects \cup
    {AddEntry(OldName, "project.optional-dependencies", "docs",
              Value("list", <<Str(<<"sphinx">>)>>)),
     AddEntry(OldName, "project.urls", "Homepage", Str(<<"https://old.example.org">>)),
     AddEntry(OldName, "project.scripts", "cmd", Str(<<"old:main">>)),
     AddEntry(AddEntry(OldName, "project.entry-points", "plugin", Str(<<>>)),
              "project.entry-points.plugin", "cmd", Str(<<"old:main">>)),
     AddEntry(EmptyDoc, "tool.hatch.version", "source", Str(<<"code">>)),
     AddEntry(EmptyDoc, "tool.hatch", "version", Str(<<"0.1">>)),
     AddEntry(EmptyDoc, "tool.hatch.build.targets.wheel", "packages",
              Value("list", <<Str(<<"lib">>)>>))}

GnInit ==
    /\ gnMetadata \in GenMetadatas
    /\ gnExisting \in {Absent} \cup {File(doc) : doc \in ExistingDocs}
    /\ gnTools \in {{}, {"ruff"}, {"ruff", "pytest"}}
    /\ gnDoc = EmptyDoc
    /\ gnPc = "parse"
    /\ gnRestIdle

\* doc = tomlkit.parse(existing_pyproject) if existing_pyproject else tomlkit.document()
ParseExisting ==
    /\ gnPc = "parse"
    /\ IF gnExisting.exists /\ gnExisting.text.malformed
       THEN gnPc' = "raised" /\ UNCHANGED gnDoc
       ELSE /\ gnDoc' = IF gnExisting.exists THEN gnExisting.text ELSE EmptyDoc
            /\ gnPc' = "build_system"
    /\ UNCHANGED <<gnMetadata, gnExisting, gnTools>>
    /\ UNCHANGED gnRest

\* if "build-system" not in doc: ...
AddBuildSystem ==
    /\ gnPc = "build_system"
    /\ gnDoc' =
        IF "build-system" \in gnDoc.tables THEN gnDoc
        ELSE AddEntry(
                AddEntry(gnDoc, "build-system", "requires",
                    Value("list", <<Str(<<"hatchling">>)>>
                        \o (IF _is_dynamic_version(gnMetadata)
                            THEN <<Str(<<"hatch-vcs">>)>> ELSE <<>>))),
                "build-system", "build-backend", Str(<<"hatchling.build">>))
    /\ gnPc' = "project"
    /\ UNCHANGED <<gnMetadata, gnExisting, gnTools>>
    /\ UNCHANGED gnRest

\* if "project" not in doc: ...
AddProject ==
    /\ gnPc = "project"
    /\ gnDoc' = IF "project" \in gnDoc.tables THEN gnDoc
                ELSE _populate_project_table(gnDoc, gnMetadata)
    /\ gnPc' = "extras"
    /\ UNCHANGED <<gnMetadata, gnExisting, gnTools>>
    /\ UNCHANGED gnRest

\* if extras and "project" in doc: ... doc["project"].add("optional-dependencies", opt_deps)
AddOptionalDependencies ==
    /\ gnPc = "extras"
    /\ LET extras == Get(gnMetadata, "extras_require", Value("dict", <<>>))
       IN  IF ~(Truthy(extras) /\ "project" \in gnDoc.tables)
           THEN gnPc' = "urls" /\ UNCHANGED gnDoc
           ELSE IF HasKey(gnDoc, "project", "optional-dependencies")
           THEN gnPc' = "raised" /\ UNCHANGED gnDoc
           ELSE /\ gnDoc' = AddEntries(gnDoc, "project.optional-dependencies", extras.items)
                /\ gnPc' = "urls"
    /\ UNCHANGED <<gnMetadata, gnExisting, gnTools>>
    /\ UNCHANGED gnRest

\* if (url or project_urls) and "project" in doc: ... doc["project"].add("urls", urls)
AddUrls ==
    /\ gnPc = "urls"
    /\ LET url == Get(gnMetadata, "url", Get(gnMetadata, "home_page", Value("none", <<>>)))
       IN  IF ~(Truthy(url) /\ "project" \in gnDoc.tables)
           THEN gnPc' = "entry_points" /\ UNCHANGED gnDoc
           ELSE IF HasKey(gnDoc, "project", "urls")
           THEN gnPc' = "raised" /\ UNCHANGED gnDoc
           ELSE /\ gnDoc' = AddEntry(gnDoc, "project.urls", "Homepage", url)
                /\ gnPc' = "entry_points"
    /\ UNCHANGED <<gnMetadata, gnExisting, gnTools>>
    /\ UNCHANGED gnRest

\* _add_entry_points(doc, metadata)
AddEntryPoints ==
    /\ gnPc = "entry_points"
    /\ LET entry_points == Get(gnMetadata, "entry_points", Value("none", <<>>))
           added == AddGroups(gnDoc, entry_points.items)
       IN  IF ~Truthy(entry_points) \/ entry_points.type # "dict"
              \/ IsFalsyTable(gnDoc, "project")
           THEN gnPc' = "wheel" /\ UNCHANGED gnDoc
           ELSE /\ gnDoc' = added.doc
                /\ gnPc' = IF added.raised THEN "raised" ELSE "wheel"
    /\ UNCHANGED <<gnMetadata, gnExisting, gnTools>>
    /\ UNCHANGED gnRest

\* if isinstance(packages_val, str) and packages_val.startswith("find_packages:"): ...
EnsureHatchWheel ==
    /\ gnPc = "wheel"
    /\ LET packages_val == Get(gnMetadata, "packages", Str(<<>>))
           where == IF packages_val.items = <<>> THEN <<>> ELSE Tail(packages_val.items)
       IN  gnDoc' = IF /\ packages_val.type = "str"
                       /\ packages_val.items # <<>>
                       /\ packages_val.items[1] = "find_packages:"
                       /\ where # <<>> /\ where # <<".">>
                    THEN _ensure_hatch_wheel_config(gnDoc, gnMetadata, where)
                    ELSE gnDoc
    /\ gnPc' = "version"
    /\ UNCHANGED <<gnMetadata, gnExisting, gnTools>>
    /\ UNCHANGED gnRest

\* if _is_dynamic_version(metadata): ... hatch.add("version", version_tbl)
AddHatchVersion ==
    /\ gnPc = "version"
    /\ IF ~_is_dynamic_version(gnMetadata)
       THEN gnPc' = "tools" /\ UNCHANGED gnDoc
       ELSE IF HasKey(gnDoc, "tool.hatch", "version")
       THEN gnPc' = "raised" /\ UNCHANGED gnDoc
       ELSE /\ gnDoc' = AddEntry(gnDoc, "tool.hatch.version", "source", Str(<<"vcs">>))
            /\ gnPc' = "tools"
    /\ UNCHANGED <<gnMetadata, gnExisting, gnTools>>
    /\ UNCHANGED gnRest

\* if tool_configs: ...; return tomlkit.dumps(doc)
AddToolConfigs ==
    /\ gnPc = "tools"
    /\ gnDoc' = Doc(gnDoc.tables
                    \cup {"tool." \o t : t \in {n \in gnTools : ("tool." \o n) \notin gnDoc.tables}},
                    gnDoc.entries)
    /\ gnPc' = "done"
    /\ UNCHANGED <<gnMetadata, gnExisting, gnTools>>
    /\ UNCHANGED gnRest

GnNext ==
    \/ ParseExisting
    \/ AddBuildSystem
    \/ AddProject
    \/ AddOptionalDependencies
    \/ AddUrls
    \/ AddEntryPoints
    \/ EnsureHatchWheel
    \/ AddHatchVersion
    \/ AddToolConfigs

SpecGen == GnInit /\ [][GnNext]_vars

(***************************************************************************)
(* Properties of the import rewriter.                                      *)
(***************************************************************************)
FirstDone == run >= 2

FirstCode == Code(Flatten(firstOutput))

\* The keys (qualifier, name) of the entries the loader accepts.
ConfigKeys ==
    {<<config[i].old[1], config[i].old[2]>> :
        i \in {j \in DOMAIN config : Len(config[j].old) = 2 /\ Len(config[j].new) = 2}}

\* The first entry of the configuration keyed (m, n).
FirstTarget(m, n) ==
    config[CHOOSE i \in DOMAIN config :
        /\ Len(config[i].old) = 2 /\ Len(config[i].new) = 2
        /\ config[i].old = <<m, n>>
        /\ \A j \in 1..(i - 1) :
              ~(Len(config[j].old) = 2 /\ Len(config[j].new) = 2 /\ config[j].old = <<m, n>>)].new

\* The first entry of the configuration whose qualifier is m.
FirstModuleTarget(m) ==
    config[CHOOSE i \in DOMAIN config :
        /\ Len(config[i].old) = 2 /\ Len(config[i].new) = 2
        /\ config[i].old[1] = m
        /\ \A j \in 1..(i - 1) :
              ~(Len(config[j].old) = 2 /\ Len(config[j].new) = 2 /\ config[j].old[1] = m)].new

\* Line i of the input holds the declaration `from <module> import <names>`.
Declaration(i) ==
    /\ i \in DOMAIN source
    /\ source[i].kind = "import"
    /\ ~source[i].relative
    /\ source[i].module # NoneVal
    /\ ~source[i].star

\* The declaration of line i is the only statement of its line.
Alone(i) == ~source[i].shared

\* Line i is the declaration `from m import n` of one name (`as q` or not).
SingleDeclaration(i) == Declaration(i) /\ Len(source[i].names) = 1

\* The bare references to identifier id on the lines after line i:
\* <<line, node>> indexes.
LaterReferences(i, id) ==
    {<<j, k>> \in (DOMAIN source) \X (1..Len(AllNodes)) :
        /\ j > i
        /\ source[j].kind = "expr"
        /\ k \in DOMAIN source[j].nodes
        /\ source[j].nodes[k].pos = "ref"
        /\ source[j].nodes[k].id = id}

AliasIndexes(l) == IF source[l].kind = "import" THEN DOMAIN source[l].names ELSE {}

\* Alias j of line l schedules a usage-site rename of identifier id.
Schedules(l, j, id) ==
    /\ source[l].kind = "import"
    /\ source[l].module # NoneVal
    /\ ~source[l].star
    /\ j \in AliasIndexes(l)
    /\ source[l].names[j].name = id
    /\ source[l].names[j].asname = NoneVal
    /\ InLookup(mappings, source[l].module, id)
    /\ Lookup(mappings, source[l].module, id).new_name # id

\* C1: running the import rewriter on its own output changes nothing:
\* transform_code(transform_code(f)) = transform_code(f), for every file and
\* every mapping table.
C1_Idempotence == run = 3 => Code(Flatten(output)) = FirstCode

\* No declaration of the input imports a keyed name, and no wildcard import
\* names a keyed qualifier; the qualifier of a relative import (`.A`) is no
\* qualifier of the table.
NoMappedImport ==
    \A i \in DOMAIN source :
        (source[i].kind = "import" /\ ~source[i].relative /\ source[i].module # NoneVal) =>
            IF source[i].star
            THEN \A key \in ConfigKeys : key[1] # source[i].module
            ELSE \A j \in DOMAIN source[i].names :
                    <<source[i].module, source[i].names[j].name>> \notin ConfigKeys

\* C2: a file in which no import declaration imports a keyed (qualifier, name)
\* and no wildcard import names a mapped qualifier is returned byte for byte,
\* identifiers that share their token with a mapped old name included.
C2_NoOpGuarantee == (FirstDone /\ NoMappedImport) => FirstCode = Code(source)

\* C3: of two entries with the same (old_module, old_name) and differing
\* targets the loader keeps exactly one, the first, and the first entry's
\* target is the one the named-import rewrite, the wildcard rewrite and the
\* usage-site rename use.
C3_MappingDedup ==
    FirstDone =>
        \A i \in DOMAIN source :
              /\ (/\ SingleDeclaration(i)
                  /\ Alone(i)
                  /\ <<source[i].module, source[i].names[1].name>> \in ConfigKeys)
                 => LET t == FirstTarget(source[i].module, source[i].names[1].name)
                    IN  /\ \A k \in KeyIndexes(mappings, source[i].module,
                                                source[i].names[1].name) :
                              <<mappings[k].new_module, mappings[k].new_name>> = t
                        /\ firstOutput[i] = <<ImportLine(FALSE, t[1], FALSE,
                              <<Alias(t[2], source[i].names[1].asname, "default")>>, FALSE)>>
                        /\ (source[i].names[1].asname = NoneVal /\ Len(source) = 2) =>
                              \A r \in LaterReferences(i, source[i].names[1].name) :
                                  firstOutput[r[1]][1].nodes[r[2]].id = t[2]
              /\ (/\ source[i].kind = "import" /\ ~source[i].shared /\ source[i].star
                  /\ \E key \in ConfigKeys : key[1] = source[i].module)
                 => firstOutput[i][1].module = FirstModuleTarget(source[i].module)[1]

NamePairs(aliases) == [i \in DOMAIN aliases |-> <<aliases[i].name, aliases[i].asname>>]

\* The printed declaration does not end in a separator.
NoTrailingSeparator(line) ==
    LET code == LineCode(line)
        last == IF line.paren THEN Len(code) - 2 ELSE Len(code) - 1
    IN  code[last] # ","

Mapped(i, j) == InLookup(mappings, source[i].module, source[i].names[j].name)

Target(i, j) == Lookup(mappings, source[i].module, source[i].names[j].name)

\* Line i holds both mapped and unmapped names.
MixedDeclaration(i) ==
    /\ Declaration(i)
    /\ \E j \in DOMAIN source[i].names : Mapped(i, j)
    /\ \E j \in DOMAIN source[i].names : ~Mapped(i, j)

\* C4: a declaration `from A import ...` holding mapped and unmapped names
\* becomes the original declaration with exactly the unmapped names, in their
\* order and with no trailing separator, followed by one new declaration per
\* distinct target qualifier, in lexicographic order of the qualifier, each
\* holding the new names of the names mapped to it; every name of the
\* original declaration is in exactly one output declaration.
C4_SplitOnMixedTargets ==
    FirstDone =>
        \A i \in DOMAIN source : MixedDeclaration(i) =>
            LET out == firstOutput[i]
                orig == source[i]
                idx == DOMAIN orig.names
                targets == {Target(i, j).new_module : j \in {n \in idx : Mapped(i, n)}}
            IN  /\ Len(out) = 1 + Cardinality(targets)
                /\ out[1].module = orig.module
                /\ out[1].paren = orig.paren
                /\ NamePairs(out[1].names) =
                      NamePairs(SelectSeq(orig.names,
                          LAMBDA a : ~InLookup(mappings, orig.module, a.name)))
                /\ out[1].shared = orig.shared
                /\ \A k \in DOMAIN out :
                      /\ out[k].kind = "import" /\ ~out[k].star
                      /\ k > 1 => ~out[k].shared
                      /\ NoTrailingSeparator(out[k])
                /\ \A k \in 2..Len(out) :
                      /\ out[k].module \in targets
                      /\ \A l \in 2..Len(out) :
                            k < l => ModuleRank(out[k].module) < ModuleRank(out[l].module)
                      /\ NamePairs(out[k].names) =
                            LET mine == SelectSeq(orig.names, LAMBDA a :
                                    /\ InLookup(mappings, orig.module, a.name)
                                    /\ Lookup(mappings, orig.module, a.name).new_module
                                          = out[k].module)
                            IN  [n \in DOMAIN mine |->
                                    <<Lookup(mappings, orig.module, mine[n].name).new_name,
                                      mine[n].asname>>]

\* Line i is `from A import x as q`, q another identifier than x, with x
\* mapped.
AliasedMapped(i) ==
    /\ SingleDeclaration(i)
    /\ Alone(i)
    /\ source[i].names[1].asname \notin {NoneVal, source[i].names[1].name}
    /\ Mapped(i, 1)

\* `from A import x as q` becomes `from B import x2 as q`, and the
\* declaration schedules no rename.
AliasDeclarationKept(i) ==
    /\ firstOutput[i] = <<ImportLine(FALSE, Target(i, 1).new_module, FALSE,
            <<Alias(Target(i, 1).new_name, source[i].names[1].asname, "default")>>, FALSE)>>
    /\ visit_ImportFrom(mappings, renames, source[i]) = renames

\* C5: `from A import x as q` with x mapped to (B, x2) becomes
\* `from B import x2 as q`, the declaration schedules no rename, and every
\* later bare occurrence of q is unchanged.
C5_AliasPreservesUsage ==
    FirstDone =>
        \A i \in DOMAIN source : AliasedMapped(i) =>
            /\ AliasDeclarationKept(i)
            /\ \A r \in LaterReferences(i, source[i].names[1].asname) :
                  firstOutput[r[1]][1].nodes[r[2]].id = source[i].names[1].asname

\* Line i is an unaliased `from A import x` with x mapped to another name.
UnaliasedRenamed(i) ==
    /\ SingleDeclaration(i)
    /\ Schedules(i, 1, source[i].names[1].name)

\* No other line of the file imports or binds the name line i imports.
SoleImport(i) ==
    \A l \in DOMAIN source \ {i} : \A n \in AliasIndexes(l) :
        /\ source[l].names[n].name # source[i].names[1].name
        /\ source[l].names[n].asname # source[i].names[1].name

\* `from A import x` becomes `from B import y`, where it stands.
RenamedDeclaration(i) ==
    firstOutput[i] = <<ImportLine(source[i].shared, Target(i, 1).new_module, FALSE,
            <<Alias(Target(i, 1).new_name, NoneVal, "default")>>, FALSE)>>

\* C6: an unaliased `from A import x`, the file's one import of x, with x
\* mapped to (B, y), y # x, becomes `from B import y`, and every later bare
\* reference to x becomes y.
C6_RenamePropagates ==
    FirstDone =>
        \A i \in DOMAIN source : (UnaliasedRenamed(i) /\ SoleImport(i)) =>
            /\ RenamedDeclaration(i)
            /\ \A r \in LaterReferences(i, source[i].names[1].name) :
                  firstOutput[r[1]][1].nodes[r[2]].id = Target(i, 1).new_name

\* C7: with a rename x -> y scheduled, an occurrence of the token x as an
\* attribute name (o.x) or as a keyword-argument name (f(x=1)) is left as x.
C7_OnlyReferencesRenamed ==
    FirstDone =>
        \A j \in DOMAIN source : source[j].kind = "expr" =>
            \A k \in DOMAIN source[j].nodes :
                source[j].nodes[k].pos \in {"attr", "kwarg"} =>
                    firstOutput[j][1].nodes[k].id = source[j].nodes[k].id

(***************************************************************************)
(* Properties of the template text rewriter.                               *)
(***************************************************************************)
\* old literal s occurs in text t.
Occurs(s, t) == \E i \in 1..(Len(t) - Len(s) + 1) : SubSeq(t, i, i + Len(s) - 1) = s

\* The pair lists of the call, in the order the function walks them.
GivenPairs ==
    IF ptCall = "pt" THEN replacements ELSE data_attributes \o css_classes

\* C8: in whatever order the list holds the pairs, a longer old literal is
\* tried before a shorter one that is its substring: a text that is the
\* longer old literal becomes that pair's new literal (("pull-right",
\* "float-end") and ("pull", "x") turn "pull-right" into "float-end", never
\* into "x-right").
C8_LongestMatchFirst ==
    ptLoop = "done" =>
        \A i, j \in DOMAIN GivenPairs :
            (/\ Len(GivenPairs) = 2
             /\ Len(GivenPairs[j].old) < Len(GivenPairs[i].old)
             /\ Occurs(GivenPairs[j].old, GivenPairs[i].old)
             /\ ~Occurs(GivenPairs[j].old, GivenPairs[i].new)
             /\ content = GivenPairs[i].old)
            => result = GivenPairs[i].new

(***************************************************************************)
(* Properties of the namespace migration.                                  *)
(***************************************************************************)
\* The __init__.py files migrate_namespaces looks at.
MigratedInitPaths == {"a/__init__.py", "a/b/__init__.py"}

Declarations == {"decl", "idecl", "pkgutil_import", "pkgutil_path"}

\* The lines of a text that are statements other than declarations, in order.
OtherStatements(text) ==
    LET IsStatement(line) == line \in {"code", "icode"}
    IN  SelectSeq(text, IsStatement)

\* Only declarations, comments, blank lines and try/except guard syntax.
DeclarationOnly(text) ==
    /\ \E i \in DOMAIN text : text[i] \in Declarations
    /\ \A i \in DOMAIN text :
          text[i] \in Declarations \cup {"comment", "blank", "try", "except", "ipass"}

\* A declaration plus at least one other statement.
DeclarationPlusStatement(text) ==
    /\ \E i \in DOMAIN text : text[i] \in Declarations
    /\ OtherStatements(text) # <<>>

\* C9: after migrate_namespaces in write mode, an __init__.py that held only
\* recognized namespace declarations is deleted and reported in
\* deleted_files; one that held a declaration plus another statement is not
\* deleted, is reported in modified_files, and still exists with the
\* declaration gone and the other statements verbatim.
C9_NamespaceInitHandling ==
    (nsPc = "done" /\ ~dry_run) =>
        \A path \in MigratedInitPaths :
            before[path].exists =>
                /\ DeclarationOnly(before[path].text) =>
                      /\ ~fs[path].exists
                      /\ path \in Range(deleted)
                /\ DeclarationPlusStatement(before[path].text) =>
                      /\ fs[path].exists
                      /\ path \notin Range(deleted)
                      /\ path \in Range(modified)
                      /\ \A i \in DOMAIN fs[path].text :
                            fs[path].text[i] \notin Declarations
                      /\ OtherStatements(fs[path].text)
                            = OtherStatements(before[path].text)

(***************************************************************************)
(* Properties of the metadata merge.                                       *)
(***************************************************************************)
\* setup_cfg_data as a mapping.
CfgKeys == {setup_cfg_data[i].key : i \in DOMAIN setup_cfg_data}

CfgValue(key) ==
    setup_cfg_data[CHOOSE i \in DOMAIN setup_cfg_data : setup_cfg_data[i].key = key].val

\* None, the empty string, the empty list, the empty mapping.
EmptyValue(val) == val.type = "none" \/ val.items = <<>>

\* C10: for a key of both records the merged record holds the setup.cfg
\* value if that value is non-empty and the setup.py value if it is empty
\* (None, "", [], {}); a key of setup.py alone keeps its value, and so does
\* a key of setup.cfg alone with a non-empty value.
C10_MergePrecedence ==
    mergePc = "done" =>
        /\ \A key \in DOMAIN setup_py_data \cap CfgKeys :
              /\ key \in DOMAIN merged
              /\ merged[key] = IF EmptyValue(CfgValue(key)) THEN setup_py_data[key]
                               ELSE CfgValue(key)
        /\ \A key \in DOMAIN setup_py_data \ CfgKeys :
              key \in DOMAIN merged /\ merged[key] = setup_py_data[key]
        /\ \A key \in CfgKeys \ DOMAIN setup_py_data :
              ~EmptyValue(CfgValue(key)) =>
                  key \in DOMAIN merged /\ merged[key] = CfgValue(key)

\* Line i of the input holds the wildcard declaration `from <module> import *`.
StarDeclaration(i) ==
    /\ i \in DOMAIN source
    /\ source[i].kind = "import"
    /\ ~source[i].relative
    /\ source[i].module # NoneVal
    /\ source[i].star

\* The target qualifiers of the mapping entries for qualifier m.
ModuleTargets(m) ==
    {mappings[k].new_module : k \in {j \in DOMAIN mappings : mappings[j].old_module = m}}

\* C15: a wildcard import whose qualifier has a mapping entry comes out as one
\* wildcard declaration that differs from the original in its qualifier only,
\* which is the target qualifier of an entry for it; a wildcard import whose
\* qualifier has no entry comes out unchanged; and visiting a wildcard import
\* schedules no usage-site rename.
C15_WildcardImport ==
    /\ [](FirstDone =>
            \A i \in DOMAIN source :
                StarDeclaration(i) =>
                    /\ Len(firstOutput[i]) = 1
                    /\ IF ModuleTargets(source[i].module) = {}
                       THEN firstOutput[i][1] = source[i]
                       ELSE \E t \in ModuleTargets(source[i].module) :
                                firstOutput[i][1] = [source[i] EXCEPT !.module = t])
    /\ [][(VisitImportLine /\ tree[pos].star) => renames' = renames]_vars

\* No name of the declaration of line i has an entry keyed by the
\* declaration's own qualifier.
UnmappedDeclaration(i) ==
    /\ Declaration(i)
    /\ \A j \in DOMAIN source[i].names :
            <<source[i].module, source[i].names[j].name>> \notin ConfigKeys

\* C20: a declaration none of whose names is keyed by its own qualifier is
\* emitted as it was written, whatever renames other declarations of the file
\* have scheduled.
C20_DeclarationPassthrough ==
    FirstDone =>
        \A i \in DOMAIN source :
            UnmappedDeclaration(i) => Code(firstOutput[i]) = LineCode(source[i])

(***************************************************************************)
(* Properties of the ZCML / GenericSetup rewriter.                         *)
(***************************************************************************)
\* The index of the first pair of the local `replacements` whose old is `old`.
FirstPair(old) ==
    CHOOSE k \in DOMAIN zcReplacements :
        /\ zcReplacements[k].old = old
        /\ \A m \in 1..(k - 1) : zcReplacements[m].old # old

\* The old name of entry j is a proper substring of the old name of entry i.
ProperSubstring(j, i) ==
    /\ Len(zcEntries[j].old) < Len(zcEntries[i].old)
    /\ Occurs(zcEntries[j].old, zcEntries[i].old)

\* C18: the pairs the ZCML and GenericSetup functions walk are a permutation
\* of the configured pairs in non-increasing length of old; so of two
\* configured old names, one a proper substring of the other, the longer is
\* applied first, and a text that is the longer name has become the longer
\* name's replacement when that pair has been applied.
C18_LongestFirstZcml ==
    zcLoop \in {"replacements", "views"} =>
        /\ Len(zcReplacements) = Len(zcEntries)
        /\ \E f \in Permutations(DOMAIN zcEntries) :
                \A k \in DOMAIN zcEntries : zcReplacements[k] = zcEntries[f[k]]
        /\ \A k \in 1..(Len(zcReplacements) - 1) :
                Len(zcReplacements[k].old) >= Len(zcReplacements[k + 1].old)
        /\ \A i, j \in DOMAIN zcEntries :
                (ProperSubstring(j, i) /\ zcContent = zcEntries[i].old) =>
                    /\ FirstPair(zcEntries[i].old) < FirstPair(zcEntries[j].old)
                    /\ (zcLoop = "replacements"
                            /\ zcIndex = FirstPair(zcEntries[i].old) + 1)
                        => zcResult = zcReplacements[FirstPair(zcEntries[i].old)].new

\* The configuration lists the shorter name first; the text is the longer
\* name and the longer name's pair has just been applied.
C18_Witness ==
    /\ Len(zcEntries) = 2
    /\ ProperSubstring(1, 2)
    /\ zcContent = zcEntries[2].old
    /\ zcLoop = "replacements"
    /\ zcIndex = 2
    /\ zcResult = zcEntries[2].new

\* C19: text produced by one pair's replacement is never matched and rewritten
\* by a later pair of the list: when the text is the first pair's old literal
\* and the second pair's old literal occurs nowhere in it, the result is the
\* first pair's new literal, untouched by the second pair.
C19_NoCorruptionByLaterPair ==
    (/\ ptLoop = "done"
     /\ Len(GivenPairs) = 2
     /\ content = GivenPairs[1].old
     /\ ~Occurs(GivenPairs[2].old, content))
    => result = GivenPairs[1].new

(***************************************************************************)
(* Properties of the static extraction from setup.py.                      *)
(***************************************************************************)
SameValue(a, b) == a.type = b.type /\ a.items = b.items

\* result["_warnings"] holds the warning that names keyword arg.
Warned(arg) ==
    /\ "_warnings" \in DOMAIN extracted
    /\ extracted["_warnings"].type = "list"
    /\ \E i \in DOMAIN extracted["_warnings"].items :
            /\ extracted["_warnings"].items[i].type = "str"
            /\ extracted["_warnings"].items[i] = Warning(arg)

\* C16: parse_setup_py never raises for an unevaluable value, and for every
\* keyword argument of the setup() call exactly one of two things holds of the
\* result: the value is statically evaluable and the key is in the result
\* with that value (None included) and no warning names it, or the value is
\* not evaluable, the key is absent and _warnings names the key.
C16_UnresolvedValues ==
    /\ evPc # "raised"
    /\ evPc = "done" =>
        \A k \in DOMAIN keywords :
            keywords[k].arg # NoneVal =>
                LET arg == keywords[k].arg
                    val == _eval_node(keywords[k].value, module_vars)
                IN  IF val.type # "unresolved"
                    THEN /\ arg \in DOMAIN extracted
                         /\ SameValue(extracted[arg], val)
                         /\ ~Warned(arg)
                    ELSE /\ arg \notin DOMAIN extracted
                         /\ Warned(arg)

(***************************************************************************)
(* Properties of the phases.                                               *)
(***************************************************************************)
\* C12: a phase run with dry_run set creates, writes and deletes no file:
\* the tree after the run is the tree before it.
C12_DryRunNoMutation ==
    (cliPc = "done" /\ cliDryRun) => cliFs = cliBefore

\* What the function of the phase returns when called on the tree the run
\* started from.
Decisions(dry) ==
    CASE cliPhase = "zcml" ->
            Returned(migrate_zcml_files(cliBefore, cliConfig.entries, dry).modified,
                     <<>>, <<>>, <<>>, FALSE)
      [] cliPhase = "genericsetup" ->
            Returned(migrate_genericsetup_files(cliBefore, cliConfig.entries,
                                                cliConfig.views, dry).modified,
                     <<>>, <<>>, <<>>, FALSE)
      [] cliPhase = "pt" ->
            Returned(migrate_pt_files(cliBefore, cliConfig.replacements, dry).modified,
                     <<>>, <<>>, <<>>, FALSE)
      [] cliPhase = "bootstrap" ->
            Returned(migrate_bootstrap_files(cliBefore, cliConfig.data_attributes,
                                             cliConfig.css_classes, dry).modified,
                     <<>>, <<>>, <<>>, FALSE)
      [] cliPhase = "namespaces" ->
            Returned(migrate_namespaces(cliBefore, dry).modified, <<>>,
                     migrate_namespaces(cliBefore, dry).deleted, <<>>, FALSE)
      [] cliPhase = "packaging" ->
            Returned(<<>>, migrate_packaging(cliBefore, dry).created,
                     migrate_packaging(cliBefore, dry).deleted,
                     migrate_packaging(cliBefore, dry).warnings,
                     migrate_packaging(cliBefore, dry).raised)

\* C13: started from the same files, each of migrate_zcml_files,
\* migrate_genericsetup_files, migrate_pt_files, migrate_bootstrap_files,
\* migrate_namespaces and migrate_packaging returns the same lists, in the same
\* order, with dry_run=True as with dry_run=False: what a run returned is what
\* the run in the other mode returns.
C13_DryRunSameDecisions ==
    (cliPc = "done" /\ cliPhase # "python") =>
        /\ cliResult = Decisions(~cliDryRun)
        /\ Decisions(TRUE) = Decisions(FALSE)

\* A write-mode run that rewrote two files, the second after the first.
C13_Witness ==
    /\ cliPc = "done"
    /\ cliPhase = "zcml"
    /\ ~cliDryRun
    /\ Len(cliResult.modified) = 2
    /\ \A path \in Range(ZcmlPaths) : cliFs[path] # cliBefore[path]

\* pyproject.toml exists and declares a [project] table.
ProjectDeclared(tree_) ==
    /\ tree_["pyproject.toml"].exists
    /\ ~tree_["pyproject.toml"].text.malformed
    /\ "project" \in tree_["pyproject.toml"].text.tables

\* C11: when pyproject.toml already declares a [project] table,
\* migrate_packaging returns no created file, no deleted file and one warning,
\* and leaves pyproject.toml, setup.py, setup.cfg and MANIFEST.in as they were.
C11_ManifestSkip ==
    (cliPc = "done" /\ cliPhase = "packaging" /\ ProjectDeclared(cliBefore)) =>
        /\ ~cliResult.raised
        /\ cliResult.created = <<>>
        /\ cliResult.deleted = <<>>
        /\ Len(cliResult.warnings) = 1
        /\ cliFs = cliBefore

\* setup.py parses and its setup() call gives the keyword the value.
Declares(tree_, arg, node) ==
    /\ tree_["setup.py"].exists
    /\ tree_["setup.py"].text.syntax_ok
    /\ tree_["setup.py"].text.call
    /\ \E i \in DOMAIN tree_["setup.py"].text.keywords :
          tree_["setup.py"].text.keywords[i] = Keyword(arg, node)

\* The scenario: name='x.y.z', namespace_packages=['x', 'x.y'],
\* packages=find_packages('src'), no pyproject.toml, and a setup.cfg, if
\* any, that gives no name.
Scenario(tree_) ==
    /\ Declares(tree_, "name", Constant(Str(<<"x", ".", "y", ".", "z">>)))
    /\ Declares(tree_, "namespace_packages",
                List(<<Constant(Str(<<"x">>)), Constant(Str(<<"x", ".", "y">>))>>))
    /\ Declares(tree_, "packages",
                Call("find_packages", <<Constant(Str(<<"src">>))>>, <<>>))
    /\ ~tree_["pyproject.toml"].exists
    /\ tree_["setup.cfg"].exists =>
          "name" \notin DOMAIN parse_setup_cfg(tree_["setup.cfg"].text)

\* The text of the document holds the word: as a table, as a key, or in a
\* string of a value.
RECURSIVE InValue(_, _)
InValue(val, words) ==
    IF val.type = "str" THEN \E i \in DOMAIN val.items : val.items[i] \in words
    ELSE \E i \in DOMAIN val.items : InValue(val.items[i], words)

Mentions(doc, words) ==
    \/ doc.tables \cap words # {}
    \/ \E e \in DOMAIN doc.entries :
          e[1] \in words \/ e[2] \in words \/ InValue(doc.entries[e], words)

NamespaceWords == {"namespace", "namespace_packages", "namespace-packages"}

WheelPackages == <<"tool.hatch.build.targets.wheel", "packages">>

\* C14: a setup.py declaring name='x.y.z', namespace_packages=['x', 'x.y'] and
\* packages=find_packages('src'), migrated in write mode with no pyproject.toml,
\* yields a pyproject.toml with no `namespace` in its text and with
\* [tool.hatch.build.targets.wheel] packages = ["src/x"], and setup.py is
\* deleted.
C14_EndToEndPackaging ==
    (cliPc = "done" /\ cliPhase = "packaging" /\ ~cliDryRun /\ Scenario(cliBefore)) =>
        /\ ~cliResult.raised
        /\ cliFs["pyproject.toml"].exists
        /\ ~Mentions(cliFs["pyproject.toml"].text, NamespaceWords)
        /\ WheelPackages \in DOMAIN cliFs["pyproject.toml"].text.entries
        /\ cliFs["pyproject.toml"].text.entries[WheelPackages]
              = Value("list", <<Str(<<"src", "/", "x">>)>>)
        /\ ~cliFs["setup.py"].exists
        /\ \E i \in DOMAIN cliResult.deleted : cliResult.deleted[i] = "setup.py"

\* The scenario, migrated: pyproject.toml was written and setup.py is gone.
C14_Witness ==
    /\ cliPc = "done"
    /\ cliPhase = "packaging"
    /\ ~cliDryRun
    /\ Scenario(cliBefore)
    /\ cliResult.created = <<"pyproject.toml">>
    /\ cliFs["pyproject.toml"].exists
    /\ ~cliFs["setup.py"].exists

\* The metadata migrate_packaging hands to generate_pyproject_toml.
Metadata(tree_) ==
    merge_metadata(
        IF tree_["setup.py"].exists
        THEN Without(parse_setup_py(tree_["setup.py"].text).result, "_warnings")
        ELSE <<>>,
        IF tree_["setup.cfg"].exists THEN parse_setup_cfg(tree_["setup.cfg"].text)
        ELSE <<>>)

\* The document generate_pyproject_toml starts from has neither
\* [build-system] nor [project].
NoBuildSystemNoProject(tree_) ==
    \/ ~tree_["pyproject.toml"].exists
    \/ /\ ~tree_["pyproject.toml"].text.malformed
       /\ tree_["pyproject.toml"].text.tables \cap {"build-system", "project"} = {}

Entry(doc, table, key) ==
    IF <<table, key>> \in DOMAIN doc.entries THEN doc.entries[<<table, key>>]
    ELSE Value("none", <<>>)

Lists(val, word) ==
    val.type = "list" /\ \E i \in DOMAIN val.items : val.items[i] = Str(<<word>>)

\* No static version: hatch-vcs, project.dynamic, tool.hatch.version, and no
\* project.version.
DynamicOutcome(doc) ==
    /\ Lists(Entry(doc, "build-system", "requires"), "hatch-vcs")
    /\ Lists(Entry(doc, "project", "dynamic"), "version")
    /\ Entry(doc, "tool.hatch.version", "source") = Str(<<"vcs">>)
    /\ <<"project", "version">> \notin DOMAIN doc.entries

\* A static version: project.version, and none of the other three.
StaticOutcome(doc, metadata) ==
    /\ "version" \in DOMAIN metadata
    /\ <<"project", "version">> \in DOMAIN doc.entries
    /\ doc.entries[<<"project", "version">>] = metadata["version"]
    /\ ~Lists(Entry(doc, "build-system", "requires"), "hatch-vcs")
    /\ <<"project", "dynamic">> \notin DOMAIN doc.entries
    /\ "tool.hatch.version" \notin doc.tables

\* C17: generate_pyproject_toml on a document with no build-system and no
\* [project] gives, for every metadata record, one of two manifests: the
\* dynamic one (hatch-vcs required, project.dynamic = ["version"],
\* tool.hatch.version.source = "vcs", no project.version) or the static one
\* (project.version equal to the resolved version, none of the other three).
C17_VersionHandling ==
    (/\ cliPc = "done"
     /\ cliPhase = "packaging"
     /\ ~cliDryRun
     /\ cliResult.created # <<>>
     /\ NoBuildSystemNoProject(cliBefore)) =>
        \/ DynamicOutcome(cliFs["pyproject.toml"].text)
        \/ StaticOutcome(cliFs["pyproject.toml"].text, Metadata(cliBefore))

(***************************************************************************)
(* Properties of remove_namespace_declaration.                             *)
(***************************************************************************)
\* A line of the body of a try or except clause.
BodyLine(line) == line \in {"blank", "idecl", "ipass", "icode"}

\* Lines t..z are a try/except-guarded registration: `try:`, an indented
\* body, `except ...:` at line e, an indented body up to z, and a
\* registration inside.
GuardedRegistration(lines, t, e, z) ==
    /\ t < e /\ e <= z /\ z <= Len(lines)
    /\ lines[t] = "try"
    /\ lines[e] = "except"
    /\ \A k \in (t + 1)..(e - 1) : BodyLine(lines[k])
    /\ \A k \in (e + 1)..z : BodyLine(lines[k])
    /\ z = Len(lines) \/ ~BodyLine(lines[z + 1])
    /\ \E k \in t..z : lines[k] \in {"decl", "idecl"}

\* Line k is part of a recognized construct: a registration line, a line of
\* the pkgutil pair, or a line of a guarded registration.
Recognized(lines, k) ==
    \/ lines[k] \in Declarations
    \/ \E t \in 1..k, e \in 1..Len(lines), z \in k..Len(lines) :
          GuardedRegistration(lines, t, e, z)

\* A blank line among the blank lines that immediately follow a construct.
FollowsConstruct(lines, k) ==
    /\ lines[k] = "blank"
    /\ \E j \in 1..(k - 1) :
          /\ Recognized(lines, j)
          /\ \A m \in (j + 1)..k : lines[m] = "blank"

\* The non-blank lines outside every recognized construct, from line k on.
RECURSIVE Unrecognized(_, _)
Unrecognized(lines, k) ==
    IF k > Len(lines) THEN <<>>
    ELSE IF lines[k] # "blank" /\ ~Recognized(lines, k)
    THEN <<lines[k]>> \o Unrecognized(lines, k + 1)
    ELSE Unrecognized(lines, k + 1)

NonBlank(text) == SelectSeq(text, LAMBDA line : line # "blank")

BlankCount(text) == Cardinality({k \in DOMAIN text : text[k] = "blank"})

InUnexpectedBlock(lines, k) ==
    \E t \in 1..k :
        /\ lines[t] = "try"
        /\ _collect_try_except_block(lines, t) = 0
        /\ t < Len(lines)
        /\ lines[t + 1] = "idecl"
        /\ \A m \in (t + 1)..k : BodyLine(lines[m]) \/ lines[m] = "finally"

\* The non-blank lines that are to stay, from line k on: those of a block of
\* an unexpected shape and those outside every recognized construct.
RECURSIVE Untouched(_, _)
Untouched(lines, k) ==
    IF k > Len(lines) THEN <<>>
    ELSE IF /\ lines[k] # "blank"
            /\ InUnexpectedBlock(lines, k) \/ ~Recognized(lines, k)
    THEN <<lines[k]>> \o Untouched(lines, k + 1)
    ELSE Untouched(lines, k + 1)

\* C22: a `try:` followed by a registration that is not of the try/except
\* shape is not recognized: every line of the block, the registration inside
\* it included, is in the output of remove_namespace_declaration.
C22_UnexpectedShapeUntouched ==
    (rmPc = "done") => NonBlank(rmReturn) = Untouched(rmLines, 1)

\* A text with nothing in it but blank lines.
EmptyText(text) == \A i \in DOMAIN text : text[i] = "blank"

\* C23: after migrate_namespaces in write mode no __init__.py that held a
\* declaration is left behind empty: a declaration-only file is deleted, and
\* a mixed file, such as one whose only other statement sits in the try or
\* except body of a guard block, is written back with content.
C23_NoEmptyLeftover ==
    (nsPc = "done" /\ ~dry_run) =>
        \A path \in MigratedInitPaths :
            (before[path].exists /\ has_namespace_declaration(before[path].text)) =>
                /\ is_only_namespace_init(before[path].text) => ~fs[path].exists
                /\ fs[path].exists => ~EmptyText(fs[path].text)

OutputImports(i, m, id) ==
    \E k \in DOMAIN firstOutput[i] :
        /\ firstOutput[i][k].kind = "import"
        /\ firstOutput[i][k].module = m
        /\ ~firstOutput[i][k].star
        /\ \E n \in DOMAIN firstOutput[i][k].names :
              firstOutput[i][k].names[n].name = id

\* The old qualifier of line i offers id by itself: the input imports it
\* from there, or the table maps another name of the line to it.
OfferedByOldQualifier(i, id) ==
    \E n \in DOMAIN source[i].names :
        \/ source[i].names[n].name = id
        \/ /\ Mapped(i, n)
           /\ Target(i, n).new_module = source[i].module
           /\ Target(i, n).new_name = id

\* C28: wherever a declaration schedules the rename of an identifier, the
\* declaration is itself rewritten to import the new name from the new
\* qualifier, and the output holds no import of the new name from the old
\* qualifier; an import sharing its line with another statement included.
C28_RenameDeclarationConsistent ==
    FirstDone =>
        \A i \in DOMAIN source : \A j \in AliasIndexes(i) :
            (Declaration(i) /\ Schedules(i, j, source[i].names[j].name)) =>
                /\ OutputImports(i, Target(i, j).new_module, Target(i, j).new_name)
                /\ (/\ Target(i, j).new_module # source[i].module
                    /\ ~OfferedByOldQualifier(i, Target(i, j).new_name))
                   => ~OutputImports(i, source[i].module, Target(i, j).new_name)

(***************************************************************************)
(* Write-before-delete of migrate_packaging.                               *)
(***************************************************************************)
\* C29: in write mode an old file is deleted only after pyproject.toml is
\* written: no state has an old file gone while pyproject.toml is absent or
\* not yet the generated document; a call that returns early (nothing to
\* migrate, [project] present) or fails to generate has created, written and
\* deleted nothing.
C29_WriteBeforeDelete ==
    /\ ~pkDryRun =>
          \A n \in Range(OldFiles) :
              (pkBefore[n].exists /\ ~pkFs[n].exists) =>
                  /\ pkFs["pyproject.toml"].exists
                  /\ pkFs["pyproject.toml"].text = pkContent
                  /\ pkCreated = <<"pyproject.toml">>
    /\ pkPc \in {"no_source", "skipped", "raised"} =>
          /\ pkFs = pkBefore
          /\ pkCreated = <<>>
          /\ pkDeleted = <<>>

\* A write-mode call in the middle of the clean-up: setup.py gone, setup.cfg
\* still there, pyproject.toml written where none was.
C29_Witness ==
    /\ pkPc = "cleanup"
    /\ ~pkDryRun
    /\ pkBefore["setup.py"].exists
    /\ ~pkFs["setup.py"].exists
    /\ pkFs["setup.cfg"].exists
    /\ ~pkBefore["pyproject.toml"].exists
    /\ pkFs["pyproject.toml"].exists

(***************************************************************************)
(* Failure isolation of the directory walks.                               *)
(***************************************************************************)
\* The phase has dealt with the readable file at path as it does with a file
\* on its own, and reported it.
Processed(path) ==
    IF wkPhase = "namespaces"
    THEN LET text == wkBefore[path].text
         IN  has_namespace_declaration(text) =>
                IF is_only_namespace_init(text)
                THEN /\ path \in Range(wkDeleted)
                     /\ ~wkDryRun => ~wkFs[path].exists
                ELSE /\ path \in Range(wkModified)
                     /\ ~wkDryRun =>
                           wkFs[path] = File(remove_namespace_declaration(text))
    ELSE LET new_content == Transform(WalkCall(wkPhase), wkBefore[path].text)
         IN  /\ new_content # wkBefore[path].text <=> path \in Range(wkModified)
             /\ ~wkDryRun => wkFs[path] = File(new_content)

\* C27: in every directory-walking phase a file that cannot be read does not
\* end the phase: the phase returns, every other file it visits is processed
\* and reported, and the file that failed is as it was.
C27_FailureIsolation ==
    (wkPc \in {"done", "raised"}) =>
        /\ wkPc = "done"
        /\ \A path \in Range(WalkPaths(wkPhase, wkBefore)) :
              IF Decodes(wkBefore[path]) THEN Processed(path)
              ELSE wkFs[path] = wkBefore[path]

(***************************************************************************)
(* The file-read shapes of the static evaluation.                          *)
(***************************************************************************)
\* The name of the first file an expression reads, or None: the argument of
\* open(f).read(), of Path(f).read_text() and of a helper called with a
\* documentation-like file name; for a format call, a `+` and a join, the
\* first one among its operands.
RECURSIVE FirstFile(_)
FirstFile(n) ==
    LET FirstOf(nodes) ==
            IF \E i \in DOMAIN nodes : FirstFile(nodes[i]) # NoneVal
            THEN FirstFile(nodes[CHOOSE i \in DOMAIN nodes :
                                    /\ FirstFile(nodes[i]) # NoneVal
                                    /\ \A j \in 1..(i - 1) : FirstFile(nodes[j]) = NoneVal])
            ELSE NoneVal
    IN  IF n.node = "BinOp" THEN FirstOf(<<n.left, n.right>>)
        ELSE IF n.node = "List" THEN FirstOf(n.elts)
        ELSE IF n.node # "Call" THEN NoneVal
        ELSE IF n.func \in {"str.format", "str.join"} THEN FirstOf(n.args)
        ELSE IF n.args # <<>> /\ IsStrConstant(n.args[1])
        THEN n.args[1].value.items
        ELSE NoneVal

\* C24: a keyword whose value is one of the file-read shapes (open(f).read(),
\* Path(f).read_text(), a helper called with a documentation-like file name,
\* or a format call, a `+` concatenation or a join around such reads) is
\* extracted as the sentinel "__file__:<name>" of the first file involved.
C24_FileReadSentinel ==
    (evPc = "done") =>
        \A i \in DOMAIN keywords :
            (/\ keywords[i].value \in FileReads
             /\ \A j \in DOMAIN keywords : keywords[j].arg = keywords[i].arg => j = i) =>
                /\ keywords[i].arg \in DOMAIN extracted
                /\ extracted[keywords[i].arg]
                      = Str(<<"__file__:">> \o FirstFile(keywords[i].value))

(***************************************************************************)
(* The translation of the tool sections.                                   *)
(***************************************************************************)
\* The keys the converter of a section has a translation rule for.
RuleKeys(section) ==
    CASE section = "flake8" ->
            {"max-line-length", "max_line_length", "ignore", "select", "extend-ignore",
             "extend_ignore", "exclude"}
      [] section = "isort" ->
            {"known_first_party", "known_third_party", "force_single_line",
             "lines_after_imports", "lines_between_types", "from_first", "no_sections",
             "order_by_type", "profile"}
      [] section \in {"pycodestyle", "pep8"} ->
            {"max-line-length", "max_line_length", "ignore", "exclude"}
      [] section = "pydocstyle" -> {"convention", "match-dir", "match_dir"}
      [] section \in {"tool:pytest", "pytest"} ->
            {"testpaths", "python_files", "python_classes", "python_functions", "addopts",
             "markers"}
      [] section \in {"coverage:run", "coverage:report"} ->
            {"source", "omit", "include", "show_missing", "branch", "fail_under"}
      [] section = "check-manifest" -> {}

\* The tool table a section is translated to.
ToolOf(section) ==
    CASE section \in {"flake8", "isort", "pycodestyle", "pep8", "pydocstyle"} -> "ruff"
      [] section \in {"tool:pytest", "pytest"} -> "pytest"
      [] section \in {"coverage:run", "coverage:report"} -> "coverage"
      [] section = "check-manifest" -> "check-manifest"

\* The sections convert_tool_configs reads: of the two pytest sections the
\* first one present.
Translated(section) ==
    /\ section \in Range(ToolSections)
    /\ section \in DOMAIN tcCfg
    /\ ~(section = "pytest" /\ "tool:pytest" \in DOMAIN tcCfg)

\* C25: in every known tool section, a key the converter has no translation
\* rule for is in the result under its own name with its value as it is, in
\* the tool table of the section; a section that is no known tool section
\* adds no table and no entry.
C25_ToolKeysVerbatim ==
    (tcPc = "done") =>
        /\ \A section \in DOMAIN tcCfg : Translated(section) =>
              \A i \in DOMAIN tcCfg[section] :
                  tcCfg[section][i].key \notin RuleKeys(section) =>
                      \E path \in DOMAIN tcTools.entries :
                          /\ path[1] = ToolOf(section)
                          /\ path[Len(path)] = tcCfg[section][i].key
                          /\ tcTools.entries[path] = Str(tcCfg[section][i].val)
        /\ \A path \in tcTools.tables \cup DOMAIN tcTools.entries :
              \E section \in DOMAIN tcCfg :
                  Translated(section) /\ path[1] = ToolOf(section)


(***************************************************************************)
(* Properties of generate_pyproject_toml.                                  *)
(***************************************************************************)
\* Every table and every value of the existing document is in `doc` as it was.
Preserved(existing, doc) ==
    /\ existing.tables \subseteq doc.tables
    /\ \A e \in DOMAIN existing.entries :
        e \in DOMAIN doc.entries /\ doc.entries[e] = existing.entries[e]

\* C26: given an existing document that parses, generate_pyproject_toml
\* returns, and every table and key of that document has its original value
\* in what it returns: nothing generated replaces a key that is there, and
\* no key that is there makes the call fail.
C26_MergeNeverClobbers ==
    (gnExisting.exists /\ ~gnExisting.text.malformed) =>
        /\ gnPc # "raised"
        /\ (gnPc = "done" => Preserved(gnExisting.text, gnDoc))

====
